---- MODULE Spec2Model ----
(***************************************************************************)
(* A model of sphinx-typesense's Typesense backend                         *)
(* (src/src/sphinx_typesense/backends/typesense.py): the extraction of     *)
(* search documents from a page's elements, the connection check with its  *)
(* retry loop and cached verdict, and index_all with the collection it     *)
(* drops, creates and fills on the server; and of the extension's event    *)
(* handlers (src/src/sphinx_typesense/__init__.py, config.py,              *)
(* templates.py) that select the backend and drive it during one build.    *)
(*                                                                         *)
(* A Python string is a sequence of one-character strings, so that         *)
(* stripping, slicing and concatenation are computed and not assumed.      *)
(* An optional value (an attribute that may be absent, a tag that may not  *)
(* be found) is <<>> when absent and <<v>> when present.                   *)
(***************************************************************************)
EXTENDS Integers, Sequences, FiniteSets, TLC

VARIABLES
    \* ---- one page's extraction pass (_extract_documents) ----
    url_base,       \* the page's URL relative to the output directory
    page_elems,     \* the elements content.find_all(...) has yielded so far
    hierarchy,      \* the pass's mutable hierarchy map lvl0..lvl3
    docs,           \* the documents the pass has yielded so far
    doc_elem,       \* for each yielded document, the index in page_elems of its element
    \* ---- one TypesenseBackend instance and the server it talks to ----
    cfg,            \* app.config, read-only
    files,          \* the HTML files under app.outdir, in rglob order
    server_available, \* self._server_available: "None", "True" or "False"
    attempt,        \* _check_connection's loop variable
    backoff,        \* _check_connection's local backoff, in seconds
    probes,         \* number of client.operations.is_healthy() calls made
    answers,        \* what each of those calls answered, in order
    sleeps,         \* the time.sleep calls made: the probe count before and the seconds
    op,             \* the method the caller is in, "none" between calls
    pc,             \* the position inside that method
    ncalls,         \* number of methods the caller has started
    results,        \* how each finished method ended, in call order
    documents,      \* index_all's local list of extracted documents
    files_read,     \* number of HTML files index_all has handed to _extract_documents
    requests,       \* the collection requests sent to the server, in order
    error_count,    \* index_all's count of import results without success
    client,         \* self._client: "None" until the client property builds it
    clients_made,   \* number of _create_client() calls
    coll_exists,    \* server: whether the collection exists
    coll_docs,      \* server: the ids of the documents the collection holds
    coll_docs0,     \* server: coll_docs as it was when the backend was constructed
    \* ---- a second extraction pass over the same page ----
    earlier,        \* the documents of the first pass, <<>> while it is under way
    pos,            \* the number of elements the second pass has consumed
    \* ---- one Sphinx build with the extension loaded ----
    conf,           \* app.config: typesense_backend, typesense_api_key, typesense_enable_indexing
    environ,        \* os.environ.get("TYPESENSE_API_KEY"), absent or a string
    build_pc,       \* the build's position among the extension's event handlers
    static_files,   \* the backend _add_static_files registered assets for
    page_scripts,   \* per rendered page, the backend whose config script was injected
    config_js_calls, \* number of _write_config_js calls
    config_js,      \* _static/typesense-config.js: "absent" or "written"
    backend,        \* the class get_backend instantiated, "none" before
    handler,        \* index_documents: "not_called", "running", "returned" or "raised"
    build_exception, \* index_documents' exception argument is not None
    pagefind_log,   \* the PagefindBackend methods called, with what they returned
    \* ---- what the pure parts are applied to, and what they gave ----
    tools,          \* which ways to run Pagefind this machine has
    conf_twin,      \* a configuration that differs from conf in the admin key only
    frontend,       \* the frontend configurations generated, for conf and for conf_twin
    soup,           \* a parsed page: for each selector, the element select_one finds
    located         \* what _get_content_element returned for soup, once called

extract_vars == <<url_base, page_elems, hierarchy, docs, doc_elem>>
backend_vars == <<cfg, files, server_available, attempt, backoff, probes, answers, sleeps,
                  op, pc, ncalls, results, documents, files_read, requests,
                  error_count, client, clients_made, coll_exists, coll_docs, coll_docs0>>
rerun_vars == <<earlier, pos>>
build_vars == <<conf, environ, build_pc, static_files, page_scripts, config_js_calls,
                config_js, backend, handler, build_exception, pagefind_log>>
aux_vars == <<tools, conf_twin, frontend, soup, located>>
vars == <<url_base, page_elems, hierarchy, docs, doc_elem,
          cfg, files, server_available, attempt, backoff, probes, answers, sleeps,
          op, pc, ncalls, results, documents, files_read, requests,
          error_count, client, clients_made, coll_exists, coll_docs, coll_docs0,
          earlier, pos,
          conf, environ, build_pc, static_files, page_scripts, config_js_calls,
          config_js, backend, handler, build_exception, pagefind_log,
          tools, conf_twin, frontend, soup, located>>

----------------------------------------------------------------------------
(* Bounds of the model *)

\* the longest page, in elements found by find_all
MaxElems == 3

\* the number of methods the caller calls on one backend instance: where the
\* server may fail every request, and where only the health probe varies
MaxCalls == 1
MaxConnCalls == 2

\* the number of HTML files under the output directory
MaxFiles == 2

\* the number of documents of one import the server answers without success
MaxRejected == 1

----------------------------------------------------------------------------
(* Strings *)

Whitespace == {" ", "\n", "\t"}

RECURSIVE LStrip(_)
LStrip(s) ==
    IF s # <<>> /\ Head(s) \in Whitespace THEN LStrip(Tail(s)) ELSE s

RECURSIVE RStrip(_)
RStrip(s) ==
    IF s # <<>> /\ s[Len(s)] \in Whitespace
    THEN RStrip(SubSeq(s, 1, Len(s) - 1))
    ELSE s

\* str.strip()
Strip(s) == RStrip(LStrip(s))

\* s[:n]
Take(s, n) == SubSeq(s, 1, IF Len(s) < n THEN Len(s) ELSE n)

\* element.get_text(strip=True): every text fragment stripped, the empty ones
\* dropped, the rest joined by the empty string
RECURSIVE GetTextStrip(_)
GetTextStrip(fragments) ==
    IF fragments = <<>> THEN <<>>
    ELSE Strip(Head(fragments)) \o GetTextStrip(Tail(fragments))

\* an optional value: mapping.get(key, default)
Get(opt, default) == IF opt = <<>> THEN default ELSE opt[1]

----------------------------------------------------------------------------
(* Configuration and constants of the backend *)

MAX_RETRIES == 3
INITIAL_BACKOFF_SECONDS == 1
BACKOFF_MULTIPLIER == 2

DocTypes == {"lvl0", "lvl1", "lvl2", "lvl3", "content"}

DOC_TYPE_WEIGHTS ==
    [t \in DocTypes |->
        CASE t = "lvl0" -> 100 [] t = "lvl1" -> 90 [] t = "lvl2" -> 80
          [] t = "lvl3" -> 70 [] OTHER -> 50]

DOC_TYPE_PRIORITIES ==
    [t \in DocTypes |->
        CASE t = "lvl0" -> 100 [] t = "lvl1" -> 90 [] t = "lvl2" -> 80
          [] t = "lvl3" -> 70 [] OTHER -> 50]

\* DOC_TYPE_WEIGHTS.get(doc_type, 50)
GetWeight(doc_type) ==
    IF doc_type \in DOMAIN DOC_TYPE_WEIGHTS THEN DOC_TYPE_WEIGHTS[doc_type] ELSE 50

\* DOC_TYPE_PRIORITIES.get(doc_type, 50)
GetPriority(doc_type) ==
    IF doc_type \in DOMAIN DOC_TYPE_PRIORITIES THEN DOC_TYPE_PRIORITIES[doc_type] ELSE 50

\* the number of content characters that enter a document's id
IdContentChars == 100

----------------------------------------------------------------------------
(* Elements of a page *)

\* An element as find_all yields it: its tag, its text fragments, its own id
\* attribute, and what _find_anchor looks at around it: the id of its first
\* descendant <a> that has an id attribute, the name of its first descendant
\* <a> that has a name attribute, its previous sibling tag (name and id), and
\* its nearest enclosing <section> (the id of the section's first <span> that
\* has an id attribute, and the section's own id).
Tags == {"h1", "h2", "h3", "h4", "p", "li"}

NoAnchors == [id |-> <<>>, a_id |-> <<>>, a_name |-> <<>>, prev |-> <<>>, section |-> <<>>]

Element(tag, text, anchors) ==
    [tag |-> tag, text |-> text, id |-> anchors.id, a_id |-> anchors.a_id,
     a_name |-> anchors.a_name, prev |-> anchors.prev, section |-> anchors.section]

\* FindAnchor that takes the id of the previous sibling whatever its tag
FindAnchor_AnySibling(element) ==
    IF Get(element.id, <<>>) # <<>> THEN element.id[1]
    ELSE IF element.a_id # <<>> THEN element.a_id[1]
    ELSE IF element.a_name # <<>> THEN element.a_name[1]
    ELSE IF /\ element.prev # <<>>
            /\ Get(element.prev[1].id, <<>>) # <<>>
         THEN element.prev[1].id[1]
    ELSE IF element.section # <<>>
         THEN IF element.section[1].label # <<>> THEN element.section[1].label[1]
              ELSE IF Get(element.section[1].id, <<>>) # <<>> THEN element.section[1].id[1]
              ELSE <<>>
    ELSE <<>>

\* FindAnchor that looks for a descendant <a name> before a descendant <a id>
FindAnchor_NameBeforeId(element) ==
    IF Get(element.id, <<>>) # <<>> THEN element.id[1]
    ELSE IF element.a_name # <<>> THEN element.a_name[1]
    ELSE IF element.a_id # <<>> THEN element.a_id[1]
    ELSE IF /\ element.prev # <<>>
            /\ element.prev[1].name = "a"
            /\ Get(element.prev[1].id, <<>>) # <<>>
         THEN element.prev[1].id[1]
    ELSE IF element.section # <<>>
         THEN IF element.section[1].label # <<>> THEN element.section[1].label[1]
              ELSE IF Get(element.section[1].id, <<>>) # <<>> THEN element.section[1].id[1]
              ELSE <<>>
    ELSE <<>>

\* _find_anchor(element)
FindAnchor(element) ==
    IF Get(element.id, <<>>) # <<>> THEN element.id[1]
    ELSE IF element.a_id # <<>> THEN element.a_id[1]
    ELSE IF element.a_name # <<>> THEN element.a_name[1]
    ELSE IF /\ element.prev # <<>>
            /\ element.prev[1].name = "a"
            /\ Get(element.prev[1].id, <<>>) # <<>>
         THEN element.prev[1].id[1]
    ELSE IF element.section # <<>>
         THEN IF element.section[1].label # <<>> THEN element.section[1].label[1]
              ELSE IF Get(element.section[1].id, <<>>) # <<>> THEN element.section[1].id[1]
              ELSE <<>>
    ELSE <<>>

\* DocId that hashes the whole content
DocId_WholeContent(url, content) == url \o <<":">> \o content

\* the string sha256 is applied to, f"{url}:{content[:100]}"; sha256 is taken to
\* be injective, so the document id is modelled by the hashed string itself
DocId(url, content) == url \o <<":">> \o Take(content, IdContentChars)

EmptyHierarchy == [lvl0 |-> <<>>, lvl1 |-> <<>>, lvl2 |-> <<>>, lvl3 |-> <<>>]

\* a lookup that falls back to the deepest level the map has
HierarchyGet_DeepestLevel(h, key) == IF key \in DOMAIN h THEN h[key] ELSE h.lvl3

\* hierarchy.get(key, "") on the 4-slot map
HierarchyGet(h, key) == IF key \in DOMAIN h THEN h[key] ELSE <<>>

\* typesense_doc_version or ""
DocVersion(config) == IF config.typesense_doc_version # <<>> THEN config.typesense_doc_version ELSE <<>>

\* language or "en"
DocLanguage(config) == IF config.language # <<>> THEN config.language ELSE <<"e", "n">>

\* CreateDocument that appends "#" and the anchor even when there is none
CreateDocument_AlwaysHash(config, h, content, base, element, doc_type) ==
    LET own == Get(element.id, <<>>)
        anchor == IF own # <<>> THEN own ELSE FindAnchor(element)
        url == base \o <<"#">> \o anchor
    IN  [id |-> DocId(url, content),
         lvl0 |-> h.lvl0, lvl1 |-> h.lvl1, lvl2 |-> h.lvl2, lvl3 |-> h.lvl3,
         lvl4 |-> HierarchyGet(h, "lvl4"),
         lvl5 |-> HierarchyGet(h, "lvl5"),
         lvl6 |-> HierarchyGet(h, "lvl6"),
         content |-> content,
         url |-> url,
         url_without_anchor |-> base,
         anchor |-> anchor,
         type |-> doc_type,
         version |-> DocVersion(config),
         language |-> DocLanguage(config),
         weight |-> GetWeight(doc_type),
         item_priority |-> GetPriority(doc_type)]

\* _create_document(hierarchy, content, url_base, element, doc_type)
CreateDocument(config, h, content, base, element, doc_type) ==
    LET own == Get(element.id, <<>>)
        anchor == IF own # <<>> THEN own ELSE FindAnchor(element)
        url == IF anchor # <<>> THEN base \o <<"#">> \o anchor ELSE base
    IN  [id |-> DocId(url, content),
         lvl0 |-> h.lvl0, lvl1 |-> h.lvl1, lvl2 |-> h.lvl2, lvl3 |-> h.lvl3,
         lvl4 |-> HierarchyGet(h, "lvl4"),
         lvl5 |-> HierarchyGet(h, "lvl5"),
         lvl6 |-> HierarchyGet(h, "lvl6"),
         content |-> content,
         url |-> url,
         url_without_anchor |-> base,
         anchor |-> anchor,
         type |-> doc_type,
         version |-> DocVersion(config),
         language |-> DocLanguage(config),
         weight |-> GetWeight(doc_type),
         item_priority |-> GetPriority(doc_type)]

----------------------------------------------------------------------------
(* One iteration of _extract_documents' loop *)

\* HierarchyAfter with an h1 that clears lvl1 only
HierarchyAfter_H1KeepsDeeper(h, element) ==
    LET text == GetTextStrip(element.text)
    IN  IF text = <<>> THEN h
        ELSE CASE element.tag = "h1" -> [h EXCEPT !.lvl0 = text, !.lvl1 = <<>>]
               [] element.tag = "h2" ->
                    [h EXCEPT !.lvl1 = text, !.lvl2 = <<>>, !.lvl3 = <<>>]
               [] element.tag = "h3" ->
                    [h EXCEPT !.lvl2 = text, !.lvl3 = <<>>]
               [] element.tag = "h4" ->
                    [h EXCEPT !.lvl3 = text]
               [] OTHER -> h

\* HierarchyAfter that skips an element only when it has no text node at all:
\* a heading of white space alone sets its level to the empty string
HierarchyAfter_SkipsOnlyNoText(h, element) ==
    LET text == GetTextStrip(element.text)
    IN  IF element.text = <<>> THEN h
        ELSE CASE element.tag = "h1" ->
                    [h EXCEPT !.lvl0 = text, !.lvl1 = <<>>, !.lvl2 = <<>>, !.lvl3 = <<>>]
               [] element.tag = "h2" ->
                    [h EXCEPT !.lvl1 = text, !.lvl2 = <<>>, !.lvl3 = <<>>]
               [] element.tag = "h3" ->
                    [h EXCEPT !.lvl2 = text, !.lvl3 = <<>>]
               [] element.tag = "h4" ->
                    [h EXCEPT !.lvl3 = text]
               [] OTHER -> h

\* the hierarchy map after the loop body has run on element
HierarchyAfter(h, element) ==
    LET text == GetTextStrip(element.text)
    IN  IF text = <<>> THEN h
        ELSE CASE element.tag = "h1" ->
                    [h EXCEPT !.lvl0 = text, !.lvl1 = <<>>, !.lvl2 = <<>>, !.lvl3 = <<>>]
               [] element.tag = "h2" ->
                    [h EXCEPT !.lvl1 = text, !.lvl2 = <<>>, !.lvl3 = <<>>]
               [] element.tag = "h3" ->
                    [h EXCEPT !.lvl2 = text, !.lvl3 = <<>>]
               [] element.tag = "h4" ->
                    [h EXCEPT !.lvl3 = text]
               [] OTHER -> h

\* the loop body whose last branch is `elif tag == "p"`
Yielded_SkipsListItems(config, h, base, element) ==
    LET text == GetTextStrip(element.text)
        after == HierarchyAfter(h, element)
    IN  IF text = <<>> THEN <<>>
        ELSE CASE element.tag = "h1" -> <<CreateDocument(config, after, <<>>, base, element, "lvl0")>>
               [] element.tag = "h2" -> <<CreateDocument(config, after, <<>>, base, element, "lvl1")>>
               [] element.tag = "h3" -> <<CreateDocument(config, after, <<>>, base, element, "lvl2")>>
               [] element.tag = "h4" -> <<CreateDocument(config, after, <<>>, base, element, "lvl3")>>
               [] element.tag = "p" ->
                    <<CreateDocument(config, after, text, base, element, "content")>>
               [] OTHER -> <<>>

\* the loop body without `if not text: continue`
Yielded_KeepsEmptyText(config, h, base, element) ==
    LET text == GetTextStrip(element.text)
        after == HierarchyAfter(h, element)
    IN  CASE element.tag = "h1" -> <<CreateDocument(config, after, <<>>, base, element, "lvl0")>>
          [] element.tag = "h2" -> <<CreateDocument(config, after, <<>>, base, element, "lvl1")>>
          [] element.tag = "h3" -> <<CreateDocument(config, after, <<>>, base, element, "lvl2")>>
          [] element.tag = "h4" -> <<CreateDocument(config, after, <<>>, base, element, "lvl3")>>
          [] element.tag \in {"p", "li"} ->
               <<CreateDocument(config, after, text, base, element, "content")>>
          [] OTHER -> <<>>

\* the documents the loop body yields on element: none or one
Yielded(config, h, base, element) ==
    LET text == GetTextStrip(element.text)
        after == HierarchyAfter(h, element)
    IN  IF text = <<>> THEN <<>>
        ELSE CASE element.tag = "h1" -> <<CreateDocument(config, after, <<>>, base, element, "lvl0")>>
               [] element.tag = "h2" -> <<CreateDocument(config, after, <<>>, base, element, "lvl1")>>
               [] element.tag = "h3" -> <<CreateDocument(config, after, <<>>, base, element, "lvl2")>>
               [] element.tag = "h4" -> <<CreateDocument(config, after, <<>>, base, element, "lvl3")>>
               [] element.tag \in {"p", "li"} ->
                    <<CreateDocument(config, after, text, base, element, "content")>>
               [] OTHER -> <<>>

----------------------------------------------------------------------------
(* The extraction pass over one page, one loop iteration at a time *)

\* what an element's text nodes can hold: nothing, white space only, a word,
\* and two padded fragments
RawTexts ==
    { <<>>,
      << <<" ">> >>,
      << <<"a">> >>,
      << <<" ", "b">>, <<"a", "\n">> >> }

ExtractElements == {Element(t, x, NoAnchors) : t \in Tags, x \in RawTexts}

DefaultConfig ==
    [typesense_drop_existing |-> FALSE, typesense_doc_version |-> <<>>, language |-> <<>>]

\* the documents ds, each holding the map h itself instead of its values
SharingHierarchy(ds, h) ==
    [i \in DOMAIN ds |->
        [ds[i] EXCEPT !.lvl0 = h.lvl0, !.lvl1 = h.lvl1, !.lvl2 = h.lvl2, !.lvl3 = h.lvl3]]

\* a loop body whose documents refer to the one hierarchy map of the page
ExtractElement_SharedHierarchy(element) ==
    /\ Len(page_elems) < MaxElems
    /\ page_elems' = Append(page_elems, element)
    /\ hierarchy' = HierarchyAfter(hierarchy, element)
    /\ docs' = SharingHierarchy(docs \o Yielded(cfg, hierarchy, url_base, element),
                                HierarchyAfter(hierarchy, element))
    /\ doc_elem' = doc_elem \o [i \in 1..Len(Yielded(cfg, hierarchy, url_base, element)) |->
                                    Len(page_elems) + 1]
    /\ UNCHANGED url_base
    /\ UNCHANGED backend_vars
    /\ UNCHANGED rerun_vars
    /\ UNCHANGED build_vars
    /\ UNCHANGED aux_vars

\* the body of `for element in content.find_all([...])`, run on the next element
ExtractElement(element) ==
    /\ Len(page_elems) < MaxElems
    /\ page_elems' = Append(page_elems, element)
    /\ hierarchy' = HierarchyAfter(hierarchy, element)
    /\ docs' = docs \o Yielded(cfg, hierarchy, url_base, element)
    /\ doc_elem' = doc_elem \o [i \in 1..Len(Yielded(cfg, hierarchy, url_base, element)) |->
                                    Len(page_elems) + 1]
    /\ UNCHANGED url_base
    /\ UNCHANGED backend_vars
    /\ UNCHANGED rerun_vars
    /\ UNCHANGED build_vars
    /\ UNCHANGED aux_vars

\* _extract_documents(page) as index_all consumes it: the whole list
RECURSIVE ExtractFrom(_, _, _, _)
ExtractFrom(config, h, base, elems) ==
    IF elems = <<>> THEN <<>>
    ELSE Yielded(config, h, base, Head(elems))
         \o ExtractFrom(config, HierarchyAfter(h, Head(elems)), base, Tail(elems))

\* a file that cannot be read or decoded, or has no content element, yields nothing
ExtractDocuments(config, page) ==
    IF ~page.readable THEN <<>>
    ELSE IF ~page.has_content THEN <<>>
    ELSE ExtractFrom(config, EmptyHierarchy, page.url, page.elems)

----------------------------------------------------------------------------
(* The backend instance: connection check, collection, index_all *)

\* what client.operations.is_healthy() can do: return True or False, or raise
HealthOutcomes ==
    {"healthy", "unhealthy", "RequestUnauthorized", "ServiceUnavailable", "Timeout",
     "HTTPStatus0Error", "ConnectionError", "ServerError"}

\* the exceptions a request to the server raises when the environment fails:
\* the network ones index_all catches around the import, and rejected credentials
NetworkFailures == {"ServiceUnavailable", "Timeout", "HTTPStatus0Error", "ConnectionError"}
EnvFailures == NetworkFailures \cup {"RequestUnauthorized"}

\* Handling with rejected credentials retried like a network failure
Handling_AuthRetried(outcome) ==
    CASE outcome = "healthy" -> "healthy"
      [] outcome \in {"unhealthy", "RequestUnauthorized", "ServiceUnavailable", "Timeout",
                      "HTTPStatus0Error", "ConnectionError"} -> "retry"
      [] OTHER -> "raise"

\* Handling with a bare `except Exception` that retries
Handling_AllRetried(outcome) ==
    CASE outcome = "healthy" -> "healthy"
      [] outcome = "RequestUnauthorized" -> "auth"
      [] OTHER -> "retry"

\* Handling without the `except (Timeout, HTTPStatus0Error)` clause
Handling_TimeoutNotCaught(outcome) ==
    CASE outcome = "healthy" -> "healthy"
      [] outcome = "RequestUnauthorized" -> "auth"
      [] outcome \in {"unhealthy", "ServiceUnavailable", "ConnectionError"} -> "retry"
      [] OTHER -> "raise"

\* what _check_connection's loop body does with a probe's outcome: "healthy"
\* (lines 226-230), "auth" (237-243), "retry" (a False answer, 231-236, and
\* the exceptions caught at 244, 250 and 256), or "raise" (not caught)
Handling(outcome) ==
    CASE outcome = "healthy" -> "healthy"
      [] outcome = "RequestUnauthorized" -> "auth"
      [] outcome \in {"unhealthy", "ServiceUnavailable", "Timeout", "HTTPStatus0Error",
                      "ConnectionError"} -> "retry"
      [] OTHER -> "raise"

\* ShouldSleep that sleeps after the last attempt too
ShouldSleep_AfterLastToo(n) == n <= MAX_RETRIES

\* `if attempt < MAX_RETRIES` before time.sleep(backoff)
ShouldSleep(n) == n < MAX_RETRIES

\* HasCachedVerdict that never finds the cached verdict
HasCachedVerdict_Never == FALSE

\* `if self._server_available is not None`
HasCachedVerdict == server_available # "None"

\* ProceedsToIndex that ignores the verdict
ProceedsToIndex_Always(verdict) == TRUE

\* `if not self._check_connection(): return 0`
ProceedsToIndex(verdict) == verdict = "True"

\* DropRequested that never drops
DropRequested_Never(config) == FALSE

\* `if self.app.config.typesense_drop_existing`
DropRequested(config) == config.typesense_drop_existing

\* SaysAlreadyExists that recognises no message
SaysAlreadyExists_Never(exc) == FALSE

\* `"already exists" in str(e).lower()`
SaysAlreadyExists(exc) == exc = "ObjectAlreadyExists"

Returned(o, n, b) ==
    [op |-> o, kind |-> "return", count |-> n, verdict |-> b, exc |-> "none", step |-> "none"]
Raised(o, e, at) ==
    [op |-> o, kind |-> "raise", count |-> 0, verdict |-> "None", exc |-> e, step |-> at]

\* a client property that builds a client on every access
UseClient_Uncached ==
    /\ client' = "Client"
    /\ clients_made' = clients_made + 1

\* the client property: self._client is built on the first access only
UseClient ==
    /\ client' = "Client"
    /\ clients_made' = (IF client = "None" THEN clients_made + 1 ELSE clients_made)

\* a request to the collection, as the server log would show it
Request(kind, answer) == [call |-> ncalls, kind |-> kind, answer |-> answer]

\* the method returns or raises: control is back with the caller
Finish(result) ==
    /\ results' = Append(results, result)
    /\ op' = "none"
    /\ pc' = "idle"

\* the way on from a verdict when _ensure_collection only creates
CheckReturns_CreateOnly(o, verdict) ==
    IF o = "is_available" THEN Finish(Returned(o, 0, verdict))
    ELSE IF ~ProceedsToIndex(verdict) THEN Finish(Returned(o, 0, "None"))
    ELSE /\ pc' = "create"
         /\ op' = o
         /\ UNCHANGED results

\* _check_connection has returned verdict ("True"/"False") to the method o:
\* is_available returns it; index_all returns 0 on False (lines 329-334) and
\* goes on to _ensure_collection on True (line 336, then 292)
CheckReturns(o, verdict) ==
    IF o = "is_available" THEN Finish(Returned(o, 0, verdict))
    ELSE IF ~ProceedsToIndex(verdict) THEN Finish(Returned(o, 0, "None"))
    ELSE /\ pc' = (IF DropRequested(cfg) THEN "delete" ELSE "create")
         /\ op' = o
         /\ UNCHANGED results

\* the caller calls is_available() or index_all(); both start in
\* _check_connection, which returns the cached verdict if there is one and
\* otherwise enters the retry loop
Call(o) ==
    /\ pc = "idle"
    /\ ncalls' = ncalls + 1
    /\ IF HasCachedVerdict
       THEN /\ CheckReturns(o, server_available)
            /\ UNCHANGED <<attempt, backoff>>
       ELSE /\ op' = o
            /\ pc' = "probe"
            /\ attempt' = 1
            /\ backoff' = INITIAL_BACKOFF_SECONDS
            /\ UNCHANGED results
    /\ documents' = <<>>
    /\ error_count' = 0
    /\ UNCHANGED <<cfg, files, server_available, probes, answers, sleeps, files_read,
                   requests, client, clients_made, coll_exists, coll_docs, coll_docs0>>
    /\ UNCHANGED extract_vars
    /\ UNCHANGED rerun_vars
    /\ UNCHANGED build_vars
    /\ UNCHANGED aux_vars

\* one iteration of `for attempt in range(1, MAX_RETRIES + 1)`: the health
\* probe, its outcome, and the sleep before the next attempt
Probe(outcome) ==
    /\ pc = "probe"
    /\ UseClient
    /\ probes' = probes + 1
    /\ answers' = Append(answers, outcome)
    /\ CASE Handling(outcome) = "healthy" ->
              /\ server_available' = "True"
              /\ CheckReturns(op, "True")
              /\ UNCHANGED <<attempt, backoff, sleeps>>
         [] Handling(outcome) = "auth" ->
              /\ server_available' = "False"
              /\ CheckReturns(op, "False")
              /\ UNCHANGED <<attempt, backoff, sleeps>>
         [] Handling(outcome) = "retry" ->
              /\ IF ShouldSleep(attempt)
                 THEN /\ sleeps' = Append(sleeps, [after |-> probes + 1, secs |-> backoff])
                      /\ backoff' = backoff * BACKOFF_MULTIPLIER
                 ELSE UNCHANGED <<sleeps, backoff>>
              /\ IF attempt < MAX_RETRIES
                 THEN /\ attempt' = attempt + 1
                      /\ UNCHANGED <<server_available, op, pc, results>>
                 ELSE /\ server_available' = "False"
                      /\ CheckReturns(op, "False")
                      /\ UNCHANGED attempt
         [] OTHER ->
              /\ Finish(Raised(op, outcome, "probe"))
              /\ UNCHANGED <<server_available, attempt, backoff, sleeps>>
    /\ UNCHANGED <<cfg, files, ncalls, documents, files_read, requests, error_count,
                   coll_exists, coll_docs, coll_docs0>>
    /\ UNCHANGED extract_vars
    /\ UNCHANGED rerun_vars
    /\ UNCHANGED build_vars
    /\ UNCHANGED aux_vars

\* _ensure_collection, first half: collections[name].delete() when
\* typesense_drop_existing is set. The server drops the collection if it has it
\* and answers ObjectNotFound if not; any other exception leaves the method.
Delete(outcome) ==
    /\ pc = "delete"
    /\ UseClient
    /\ requests' = Append(requests, Request("delete", outcome))
    /\ (outcome = "ok") => coll_exists
    /\ (outcome = "ObjectNotFound") => ~coll_exists
    /\ CASE outcome = "ok" ->
              /\ coll_exists' = FALSE
              /\ coll_docs' = {}
              /\ pc' = "create"
              /\ UNCHANGED <<op, results>>
         [] outcome = "ObjectNotFound" ->
              /\ pc' = "create"
              /\ UNCHANGED <<op, results, coll_exists, coll_docs>>
         [] OTHER ->
              /\ Finish(Raised(op, outcome, "delete"))
              /\ UNCHANGED <<coll_exists, coll_docs>>
    /\ UNCHANGED <<cfg, files, server_available, attempt, backoff, probes, answers, sleeps,
                   ncalls, documents, files_read, error_count, coll_docs0>>
    /\ UNCHANGED extract_vars
    /\ UNCHANGED rerun_vars
    /\ UNCHANGED build_vars
    /\ UNCHANGED aux_vars

\* _ensure_collection, second half: collections.create(schema). The server
\* creates the collection if it lacks it and answers that it already exists if
\* not; that answer is swallowed, every other exception is raised again.
Create(outcome) ==
    /\ pc = "create"
    /\ UseClient
    /\ requests' = Append(requests, Request("create", outcome))
    /\ (outcome = "ok") => ~coll_exists
    /\ (outcome = "ObjectAlreadyExists") => coll_exists
    /\ IF outcome = "ok"
       THEN /\ coll_exists' = TRUE
            /\ coll_docs' = {}
            /\ pc' = "extract"
            /\ UNCHANGED <<op, results>>
       ELSE /\ IF SaysAlreadyExists(outcome)
               THEN pc' = "extract" /\ UNCHANGED <<op, results>>
               ELSE Finish(Raised(op, outcome, "create"))
            /\ UNCHANGED <<coll_exists, coll_docs>>
    /\ UNCHANGED <<cfg, files, server_available, attempt, backoff, probes, answers, sleeps,
                   ncalls, documents, files_read, error_count, coll_docs0>>
    /\ UNCHANGED extract_vars
    /\ UNCHANGED rerun_vars
    /\ UNCHANGED build_vars
    /\ UNCHANGED aux_vars

\* documents.extend(self._extract_documents(html_file)) over all files
\* the hierarchy map once the loop has run over elems
RECURSIVE HierarchyAfterPage(_, _)
HierarchyAfterPage(h, elems) ==
    IF elems = <<>> THEN h
    ELSE HierarchyAfterPage(HierarchyAfter(h, Head(elems)), Tail(elems))

\* a loop over the files with one hierarchy map for the whole run
RECURSIVE ExtractAllCarrying(_, _, _)
ExtractAllCarrying(config, h, fs) ==
    IF fs = <<>> THEN <<>>
    ELSE IF Head(fs).readable /\ Head(fs).has_content
         THEN ExtractFrom(config, h, Head(fs).url, Head(fs).elems)
                \o ExtractAllCarrying(config, HierarchyAfterPage(h, Head(fs).elems), Tail(fs))
         ELSE ExtractAllCarrying(config, h, Tail(fs))

ExtractAll_CarriesHierarchy(config, fs) == ExtractAllCarrying(config, EmptyHierarchy, fs)

\* a loop over the files that a file without documents ends
RECURSIVE ExtractAll_StopsAtBadPage(_, _)
ExtractAll_StopsAtBadPage(config, fs) ==
    IF fs = <<>> THEN <<>>
    ELSE IF ExtractDocuments(config, Head(fs)) = <<>> THEN <<>>
    ELSE ExtractDocuments(config, Head(fs)) \o ExtractAll_StopsAtBadPage(config, Tail(fs))

RECURSIVE ExtractAll(_, _)
ExtractAll(config, fs) ==
    IF fs = <<>> THEN <<>>
    ELSE ExtractDocuments(config, Head(fs)) \o ExtractAll(config, Tail(fs))

\* the loop over the HTML files followed by an import that is not under
\* `if documents:`
Extract_AlwaysImports ==
    /\ pc = "extract"
    /\ documents' = ExtractAll(cfg, files)
    /\ files_read' = files_read + Len(files)
    /\ pc' = "import"
    /\ UNCHANGED <<op, results>>
    /\ UNCHANGED <<cfg, files, server_available, attempt, backoff, probes, answers, sleeps,
                   ncalls, requests, error_count, client, clients_made, coll_exists,
                   coll_docs, coll_docs0>>
    /\ UNCHANGED extract_vars
    /\ UNCHANGED rerun_vars
    /\ UNCHANGED build_vars
    /\ UNCHANGED aux_vars

\* index_all, lines 338-347 and 382-390: the loop over the HTML files; with no
\* document extracted there is nothing to import and index_all returns 0
Extract ==
    /\ pc = "extract"
    /\ documents' = ExtractAll(cfg, files)
    /\ files_read' = files_read + Len(files)
    /\ IF ExtractAll(cfg, files) = <<>>
       THEN Finish(Returned(op, 0, "None"))
       ELSE pc' = "import" /\ UNCHANGED <<op, results>>
    /\ UNCHANGED <<cfg, files, server_available, attempt, backoff, probes, answers, sleeps,
                   ncalls, requests, error_count, client, clients_made, coll_exists,
                   coll_docs, coll_docs0>>
    /\ UNCHANGED extract_vars
    /\ UNCHANGED rerun_vars
    /\ UNCHANGED build_vars
    /\ UNCHANGED aux_vars

IdsOf(ds, idxs) == {ds[i].id : i \in idxs}

\* documents.import_(documents, {"action": "upsert"}) as the server log would
\* show it: the request with the list it carries
ImportRequest(answer, rejected) ==
    [call |-> ncalls, kind |-> "import", answer |-> answer, sent |-> documents,
     action |-> "upsert", failed |-> rejected]

\* index_all whose try around the import has no except clause
Import_NetworkFailureRaises(outcome, rejected, landed) ==
    /\ pc = "import"
    /\ UseClient
    /\ requests' = Append(requests, ImportRequest(outcome, rejected))
    /\ CASE outcome = "ok" ->
              /\ landed = Len(documents)
              /\ coll_docs' = coll_docs \cup IdsOf(documents, (1..Len(documents)) \ rejected)
              /\ error_count' = Cardinality(rejected)
              /\ Finish(Returned(op, Len(documents), "None"))
         [] outcome \in NetworkFailures ->
              /\ rejected = {}
              /\ coll_docs' = coll_docs \cup IdsOf(documents, 1..landed)
              /\ Finish(Raised(op, outcome, "import"))
              /\ UNCHANGED error_count
         [] OTHER ->
              /\ rejected = {}
              /\ landed = 0
              /\ Finish(Raised(op, outcome, "import"))
              /\ UNCHANGED <<coll_docs, error_count>>
    /\ UNCHANGED <<cfg, files, server_available, attempt, backoff, probes, answers, sleeps,
                   ncalls, documents, files_read, coll_exists, coll_docs0>>
    /\ UNCHANGED extract_vars
    /\ UNCHANGED rerun_vars
    /\ UNCHANGED build_vars
    /\ UNCHANGED aux_vars

\* index_all that returns the number of documents the server accepted
Import_ReturnsAccepted(outcome, rejected, landed) ==
    /\ pc = "import"
    /\ UseClient
    /\ requests' = Append(requests, ImportRequest(outcome, rejected))
    /\ CASE outcome = "ok" ->
              /\ landed = Len(documents)
              /\ coll_docs' = coll_docs \cup IdsOf(documents, (1..Len(documents)) \ rejected)
              /\ error_count' = Cardinality(rejected)
              /\ Finish(Returned(op, Len(documents) - Cardinality(rejected), "None"))
         [] outcome \in NetworkFailures ->
              /\ rejected = {}
              /\ coll_docs' = coll_docs \cup IdsOf(documents, 1..landed)
              /\ Finish(Returned(op, 0, "None"))
              /\ UNCHANGED error_count
         [] OTHER ->
              /\ rejected = {}
              /\ landed = 0
              /\ Finish(Raised(op, outcome, "import"))
              /\ UNCHANGED <<coll_docs, error_count>>
    /\ UNCHANGED <<cfg, files, server_available, attempt, backoff, probes, answers, sleeps,
                   ncalls, documents, files_read, coll_exists, coll_docs0>>
    /\ UNCHANGED extract_vars
    /\ UNCHANGED rerun_vars
    /\ UNCHANGED build_vars
    /\ UNCHANGED aux_vars

\* index_all, lines 349-390: the single bulk import with action upsert.
\* "ok": the server answers one result per document, the documents in
\* rejected without success; the others are upserted under their ids.
\* A network failure is caught and index_all returns 0, the first landed
\* documents having been written; any other exception leaves index_all.
Import(outcome, rejected, landed) ==
    /\ pc = "import"
    /\ UseClient
    /\ requests' = Append(requests, ImportRequest(outcome, rejected))
    /\ CASE outcome = "ok" ->
              /\ landed = Len(documents)
              /\ coll_docs' = coll_docs \cup IdsOf(documents, (1..Len(documents)) \ rejected)
              /\ error_count' = Cardinality(rejected)
              /\ Finish(Returned(op, Len(documents), "None"))
         [] outcome \in NetworkFailures ->
              /\ rejected = {}
              /\ coll_docs' = coll_docs \cup IdsOf(documents, 1..landed)
              /\ Finish(Returned(op, 0, "None"))
              /\ UNCHANGED error_count
         [] OTHER ->
              /\ rejected = {}
              /\ landed = 0
              /\ Finish(Raised(op, outcome, "import"))
              /\ UNCHANGED <<coll_docs, error_count>>
    /\ UNCHANGED <<cfg, files, server_available, attempt, backoff, probes, answers, sleeps,
                   ncalls, documents, files_read, coll_exists, coll_docs0>>
    /\ UNCHANGED extract_vars
    /\ UNCHANGED rerun_vars
    /\ UNCHANGED build_vars
    /\ UNCHANGED aux_vars

----------------------------------------------------------------------------
(* The inputs: configurations, sites and server states *)

Configs ==
    [typesense_drop_existing : BOOLEAN, typesense_doc_version : {<<>>}, language : {<<>>}]

Page(url, readable, has_content, elems) ==
    [url |-> url, readable |-> readable, has_content |-> has_content, elems |-> elems]

OwnId(x) == [NoAnchors EXCEPT !.id = <<x>>]

\* <h1 id="x">a</h1><p>b</p>
PageGuide ==
    Page(<<"g">>, TRUE, TRUE,
         << Element("h1", << <<"a">> >>, OwnId(<<"x">>)),
            Element("p", << <<"b">> >>, NoAnchors) >>)

\* <p>a</p><p>a</p>: the same paragraph twice
PageTwice ==
    Page(<<"t">>, TRUE, TRUE,
         << Element("p", << <<"a">> >>, NoAnchors),
            Element("p", << <<"a">> >>, NoAnchors) >>)

\* a file read_text cannot decode
PageUnreadable ==
    Page(<<"u">>, FALSE, TRUE, << Element("h1", << <<"a">> >>, NoAnchors) >>)

\* a page in which no selector finds a content element
PageNoContent ==
    Page(<<"n">>, TRUE, FALSE, << Element("h1", << <<"a">> >>, NoAnchors) >>)

PageMenu == {PageGuide, PageTwice, PageUnreadable, PageNoContent}

\* the files rglob yields: distinct paths, in any order
Sites ==
    {fs \in UNION {[1..n -> PageMenu] : n \in 0..MaxFiles} :
        \A i, j \in DOMAIN fs : i # j => fs[i].url # fs[j].url}

\* the id of a document indexed by an earlier build that no page produces now
OldDocId == <<"o", "l", "d", "_", "d", "o", "c">>

ServerStates ==
    { [exists |-> FALSE, held |-> {}],
      [exists |-> TRUE, held |-> {}],
      [exists |-> TRUE, held |-> {OldDocId}] }

DeleteOutcomes == {"ok", "ObjectNotFound"} \cup EnvFailures
CreateOutcomes == {"ok", "ObjectAlreadyExists", "RequestMalformed"} \cup EnvFailures
ImportOutcomes == {"ok"} \cup EnvFailures

----------------------------------------------------------------------------
(* Specifications *)

\* no extraction pass under way
ExtractIdle(base) ==
    /\ url_base = base
    /\ page_elems = <<>>
    /\ hierarchy = EmptyHierarchy
    /\ docs = <<>>
    /\ doc_elem = <<>>

\* no second pass over the page
NoRerun ==
    /\ earlier = <<>>
    /\ pos = 0

\* setup(app) has registered the configuration values and connected the
\* handlers; no event has been emitted yet
ExtensionLoaded(config, env, at) ==
    /\ conf = config
    /\ environ = env
    /\ build_pc = at
    /\ static_files = "none"
    /\ page_scripts = <<>>
    /\ config_js_calls = 0
    /\ config_js = "absent"
    /\ backend = "none"
    /\ handler = "not_called"
    /\ build_exception = FALSE
    /\ pagefind_log = <<>>

\* the configuration values as setup_config registers them, no key in the
\* environment, and no build under way
DEFAULT_HOST == "localhost"
DEFAULT_PORT == "8108"
DEFAULT_PROTOCOL == "http"
DEFAULT_NUM_TYPOS == 2
DEFAULT_PER_PAGE == 10

\* a numeric setting as conf.py may give it: an int, or a value of another type
IntValue(n) == [is_int |-> TRUE, val |-> n]
NotAnInt == [is_int |-> FALSE, val |-> 0]

DefaultConf ==
    [typesense_backend |-> "auto", typesense_api_key |-> <<>>,
     typesense_search_api_key |-> <<>>, typesense_enable_indexing |-> TRUE,
     typesense_host |-> DEFAULT_HOST, typesense_port |-> DEFAULT_PORT,
     typesense_protocol |-> DEFAULT_PROTOCOL,
     typesense_num_typos |-> IntValue(DEFAULT_NUM_TYPOS),
     typesense_per_page |-> IntValue(DEFAULT_PER_PAGE)]
NoEnviron == [TYPESENSE_API_KEY |-> <<>>, TYPESENSE_SEARCH_API_KEY |-> <<>>]
NoBuild == ExtensionLoaded(DefaultConf, NoEnviron, "no_build")

\* nothing generated, nothing located, no way to run Pagefind
NoTools == [python_pagefind |-> FALSE, pagefind |-> FALSE, npx |-> FALSE]
NoSoup == [matches |-> <<>>]
NoAux ==
    /\ tools = NoTools
    /\ conf_twin = DefaultConf
    /\ frontend = <<>>
    /\ soup = NoSoup
    /\ located = <<>>

\* TypesenseBackend.__init__, with the site and the server as they are then
BackendConstructed(config, site, server) ==
    /\ cfg = config
    /\ files = site
    /\ server_available = "None"
    /\ attempt = 0
    /\ backoff = 0
    /\ probes = 0
    /\ answers = <<>>
    /\ sleeps = <<>>
    /\ op = "none"
    /\ pc = "idle"
    /\ ncalls = 0
    /\ results = <<>>
    /\ documents = <<>>
    /\ files_read = 0
    /\ requests = <<>>
    /\ error_count = 0
    /\ client = "None"
    /\ clients_made = 0
    /\ coll_exists = server.exists
    /\ coll_docs = server.held
    /\ coll_docs0 = server.held

\* index_all and is_available on a fresh backend, for every configuration,
\* site and server state, the server failing any request in any way; the
\* health probe answers by one outcome of each kind of handling
IndexHealthOutcomes == {"healthy", "ServiceUnavailable", "RequestUnauthorized", "ServerError"}

Init ==
    /\ ExtractIdle(<<>>)
    /\ NoRerun
    /\ NoBuild
    /\ NoAux
    /\ \E config \in Configs, site \in Sites, server \in ServerStates :
            BackendConstructed(config, site, server)

Next ==
    \/ \E o \in {"is_available", "index_all"} : ncalls < MaxCalls /\ Call(o)
    \/ \E outcome \in IndexHealthOutcomes : Probe(outcome)
    \/ \E outcome \in DeleteOutcomes : Delete(outcome)
    \/ \E outcome \in CreateOutcomes : Create(outcome)
    \/ Extract
    \/ \E outcome \in ImportOutcomes :
         \E rejected \in {r \in SUBSET (1..Len(documents)) : Cardinality(r) <= MaxRejected} :
           \E landed \in 0..Len(documents) : Import(outcome, rejected, landed)

Spec == Init /\ [][Next]_vars

\* the connection check under every outcome of every probe, over several
\* calls on one backend, against a server that serves every other request
InitConn ==
    /\ ExtractIdle(<<>>)
    /\ NoRerun
    /\ NoBuild
    /\ NoAux
    /\ \E config \in Configs :
            BackendConstructed(config, <<PageGuide>>, [exists |-> TRUE, held |-> {OldDocId}])

NextConn ==
    \/ \E o \in {"is_available", "index_all"} : ncalls < MaxConnCalls /\ Call(o)
    \/ \E outcome \in HealthOutcomes : Probe(outcome)
    \/ \E outcome \in {"ok", "ObjectNotFound"} : Delete(outcome)
    \/ \E outcome \in {"ok", "ObjectAlreadyExists"} : Create(outcome)
    \/ Extract
    \/ Import("ok", {}, Len(documents))

SpecConn == InitConn /\ [][NextConn]_vars

\* one page's extraction pass, over every page of at most MaxElems elements
InitExtract ==
    /\ ExtractIdle(<<"g">>)
    /\ NoRerun
    /\ NoBuild
    /\ NoAux
    /\ BackendConstructed(DefaultConfig, <<>>, [exists |-> FALSE, held |-> {}])

NextExtract == \E element \in ExtractElements : ExtractElement(element)

SpecExtract == InitExtract /\ [][NextExtract]_vars

----------------------------------------------------------------------------
(* Pages whose elements have anchors on and around them *)

\* what surrounds an element: its own id, a descendant <a id>, a descendant
\* <a name>, the previous sibling tag, the nearest enclosing <section>. The
\* attributes that are present hold a name, as in the HTML Sphinx writes.
Siblings ==
    { <<>>,
      <<[name |-> "a", id |-> << <<"d">> >>]>>,
      <<[name |-> "a", id |-> <<>>]>>,
      <<[name |-> "h1", id |-> << <<"x">> >>]>> }

Sections ==
    {<<>>} \cup {<<[label |-> l, id |-> i]>> : l \in {<<>>, << <<"s">> >>},
                                                i \in {<<>>, << <<"t">> >>}}

AnchorElements ==
    {Element(t, << <<"a">> >>,
             [id |-> i, a_id |-> ai, a_name |-> an, prev |-> pr, section |-> se]) :
        t \in {"h2", "p"}, i \in {<<>>, << <<"a">> >>}, ai \in {<<>>, << <<"b">> >>},
        an \in {<<>>, << <<"c">> >>}, pr \in Siblings, se \in Sections}

GuideUrl == <<"g", "u", "i", "d", "e", ".", "h", "t", "m", "l">>

\* <h1 id="x">Install</h1>
GuideH1 ==
    Element("h1", << <<"I", "n", "s", "t", "a", "l", "l">> >>, OwnId(<<"x">>))

\* <p>Steps here</p>, right after that heading and in no section
GuideP ==
    Element("p", << <<"S", "t", "e", "p", "s", " ", "h", "e", "r", "e">> >>,
            [NoAnchors EXCEPT !.prev = <<[name |-> "h1", id |-> << <<"x">> >>]>>])

\* the pages: every single element, and the guide page
AnchorPages == {<<e>> : e \in AnchorElements} \cup {<<GuideH1, GuideP>>}

InitAnchor ==
    /\ ExtractIdle(GuideUrl)
    /\ NoRerun
    /\ NoBuild
    /\ NoAux
    /\ BackendConstructed(DefaultConfig, <<>>, [exists |-> FALSE, held |-> {}])

\* the extraction pass over one of these pages
NextAnchor ==
    \E page \in AnchorPages :
        /\ Len(page_elems) < Len(page)
        /\ SubSeq(page, 1, Len(page_elems)) = page_elems
        /\ ExtractElement(page[Len(page_elems) + 1])

SpecAnchor == InitAnchor /\ [][NextAnchor]_vars

----------------------------------------------------------------------------
(* The same page extracted a second time *)

\* a text of one fragment, one character longer than the prefix that enters
\* the id, ending in last
LongText(last) ==
    << [i \in 1..(IdContentChars + 1) |-> IF i <= IdContentChars THEN "a" ELSE last] >>

ReextractElements ==
    {Element(t, x, NoAnchors) : t \in {"h1", "h2", "p"}, x \in RawTexts}
        \cup {Element("p", LongText("b"), NoAnchors), Element("p", LongText("c"), NoAnchors)}

\* _extract_documents is called again on the file whose elements the first
\* pass has met: url_base and hierarchy are locals, set anew (lines 416-417)
ExtractAgain ==
    /\ earlier = <<>>
    /\ earlier' = <<docs>>
    /\ pos' = 0
    /\ hierarchy' = EmptyHierarchy
    /\ docs' = <<>>
    /\ doc_elem' = <<>>
    /\ UNCHANGED <<url_base, page_elems>>
    /\ UNCHANGED backend_vars
    /\ UNCHANGED build_vars
    /\ UNCHANGED aux_vars

\* the loop body of the second pass, run on the file's next element
ExtractNext ==
    /\ earlier # <<>>
    /\ pos < Len(page_elems)
    /\ pos' = pos + 1
    /\ hierarchy' = HierarchyAfter(hierarchy, page_elems[pos + 1])
    /\ docs' = docs \o Yielded(cfg, hierarchy, url_base, page_elems[pos + 1])
    /\ doc_elem' = doc_elem \o [i \in 1..Len(Yielded(cfg, hierarchy, url_base, page_elems[pos + 1])) |->
                                    pos + 1]
    /\ UNCHANGED <<url_base, page_elems, earlier>>
    /\ UNCHANGED backend_vars
    /\ UNCHANGED build_vars
    /\ UNCHANGED aux_vars

\* a page of at most MaxElems elements extracted once, then once more
NextReextract ==
    \/ \E element \in ReextractElements : earlier = <<>> /\ ExtractElement(element)
    \/ ExtractAgain
    \/ ExtractNext

SpecReextract == InitExtract /\ [][NextReextract]_vars

----------------------------------------------------------------------------
(* One build: the handlers setup() connects to Sphinx's events *)

\* the number of pages the build renders
MaxPages == 2

VALID_BACKENDS == {"auto", "typesense", "pagefind"}

\* `a or b` on two strings
Or(a, b) == IF a # <<>> THEN a ELSE b

\* GetEffectiveBackend that does not look at the environment
GetEffectiveBackend_IgnoresEnviron(config, env) ==
    IF config.typesense_backend = "auto"
    THEN IF config.typesense_api_key # <<>> THEN "typesense" ELSE "pagefind"
    ELSE config.typesense_backend

\* get_effective_backend(config); os.environ.get(ENV_API_KEY) is None when the
\* variable is not set, and None and "" are both false
GetEffectiveBackend(config, env) ==
    IF config.typesense_backend = "auto"
    THEN IF config.typesense_api_key # <<>> \/ Get(env.TYPESENSE_API_KEY, <<>>) # <<>>
         THEN "typesense"
         ELSE "pagefind"
    ELSE config.typesense_backend

\* _add_static_files: the DocSearch assets for "typesense", else Pagefind's
StaticFilesFor(backend_name) == IF backend_name = "typesense" THEN "typesense" ELSE "pagefind"

\* inject_search_assets: get_typesense_config_script for "typesense", else
\* get_pagefind_config_script
ConfigScriptFor(backend_name) == IF backend_name = "typesense" THEN "typesense" ELSE "pagefind"

\* BackendClassFor that always builds a TypesenseBackend
BackendClassFor_AlwaysTypesense(backend_name) == "typesense"

\* get_backend: TypesenseBackend(app) for "typesense", else PagefindBackend(app)
BackendClassFor(backend_name) == IF backend_name = "typesense" THEN "typesense" ELSE "pagefind"

\* BuildFailed that takes every build for a successful one
BuildFailed_Ignored(exception) == FALSE

\* `if exception is not None`
BuildFailed(exception) == exception

\* IndexingEnabled that ignores the option
IndexingEnabled_Always(config) == TRUE

\* `if not app.config.typesense_enable_indexing: return`
IndexingEnabled(config) == config.typesense_enable_indexing

\* the part of the build state no handler of config.py or templates.py touches
HandlerIdle ==
    UNCHANGED <<config_js_calls, config_js, backend, handler, build_exception, pagefind_log>>

VALID_PROTOCOLS == {"http", "https"}
MIN_NUM_TYPOS == 0
MAX_NUM_TYPOS == 2

\* _validate_protocol does not raise
ValidProtocol(config) == config.typesense_protocol \in VALID_PROTOCOLS

\* ValidNumeric that checks num_typos against its lower bound only
ValidNumeric_NoUpperBound(config) ==
    /\ config.typesense_num_typos.is_int
    /\ config.typesense_num_typos.val >= MIN_NUM_TYPOS
    /\ config.typesense_per_page.is_int
    /\ config.typesense_per_page.val >= 1

\* _validate_numeric_settings does not raise
ValidNumeric(config) ==
    /\ config.typesense_num_typos.is_int
    /\ config.typesense_num_typos.val >= MIN_NUM_TYPOS
    /\ config.typesense_num_typos.val <= MAX_NUM_TYPOS
    /\ config.typesense_per_page.is_int
    /\ config.typesense_per_page.val >= 1

\* _validate_required_settings does not raise: nothing is missing
RequiredPresent(config, api_key, search_api_key) ==
    /\ config.typesense_host # ""
    /\ config.typesense_port # ""
    /\ config.typesense_protocol # ""
    /\ api_key # <<>>
    /\ search_api_key # <<>>

\* config-inited, first handler: validate_config. An unknown backend is a
\* ConfigError; the keys are resolved against the environment and written
\* back; with indexing disabled nothing more is checked; else the protocol
\* and the numeric settings are validated and, the typesense backend in
\* effect, the required settings before them. A ConfigError ends the build.
ValidateConfig ==
    LET api_key == Or(conf.typesense_api_key, Get(environ.TYPESENSE_API_KEY, <<>>))
        search_api_key ==
            Or(conf.typesense_search_api_key, Get(environ.TYPESENSE_SEARCH_API_KEY, <<>>))
        resolved == [conf EXCEPT !.typesense_api_key = api_key,
                                 !.typesense_search_api_key = search_api_key]
    IN  /\ build_pc = "config-inited"
        /\ IF conf.typesense_backend \notin VALID_BACKENDS
           THEN build_pc' = "aborted" /\ UNCHANGED conf
           ELSE /\ conf' = resolved
                /\ build_pc' =
                     (IF ~resolved.typesense_enable_indexing THEN "validated"
                      ELSE IF GetEffectiveBackend(resolved, environ) = "pagefind"
                           THEN (IF ValidProtocol(resolved) /\ ValidNumeric(resolved)
                                 THEN "validated" ELSE "aborted")
                      ELSE IF /\ RequiredPresent(resolved, api_key, search_api_key)
                              /\ ValidProtocol(resolved)
                              /\ ValidNumeric(resolved)
                           THEN "validated"
                      ELSE "aborted")
        /\ UNCHANGED <<environ, static_files, page_scripts>>
        /\ HandlerIdle
        /\ UNCHANGED <<extract_vars, rerun_vars, backend_vars, aux_vars>>

\* config-inited, second handler: _add_static_files
AddStaticFiles ==
    /\ build_pc = "validated"
    /\ static_files' = StaticFilesFor(GetEffectiveBackend(conf, environ))
    /\ build_pc' = "building"
    /\ UNCHANGED <<conf, environ, page_scripts>>
    /\ HandlerIdle
    /\ UNCHANGED <<extract_vars, rerun_vars, backend_vars, aux_vars>>

\* html-page-context: inject_search_assets, once per rendered page
InjectSearchAssets ==
    /\ build_pc = "building"
    /\ Len(page_scripts) < MaxPages
    /\ page_scripts' = Append(page_scripts, ConfigScriptFor(GetEffectiveBackend(conf, environ)))
    /\ UNCHANGED <<conf, environ, build_pc, static_files>>
    /\ HandlerIdle
    /\ UNCHANGED <<extract_vars, rerun_vars, backend_vars, aux_vars>>

\* index_documents after _write_config_js has returned (lines 162-165): with
\* indexing disabled the handler returns, else it goes on to get_backend
AfterConfigJs ==
    IF ~IndexingEnabled(conf)
    THEN handler' = "returned" /\ build_pc' = "finished"
    ELSE handler' = "running" /\ build_pc' = "get_backend"

\* build-finished: index_documents(app, exception), lines 152-165.
\* _write_config_js returns at once unless the typesense backend is in
\* effect; the write itself (mkdir, write_text) succeeds or raises OSError,
\* which nothing in the handler catches.
IndexDocuments(exception, write_outcome) ==
    /\ build_pc = "building"
    /\ build_exception' = exception
    /\ IF BuildFailed(exception)
       THEN /\ write_outcome = "ok"
            /\ handler' = "returned"
            /\ build_pc' = "finished"
            /\ UNCHANGED <<config_js_calls, config_js>>
       ELSE /\ config_js_calls' = config_js_calls + 1
            /\ IF GetEffectiveBackend(conf, environ) # "typesense"
               THEN /\ write_outcome = "ok"
                    /\ config_js' = "skipped"
                    /\ AfterConfigJs
               ELSE IF write_outcome = "ok"
                    THEN config_js' = "written" /\ AfterConfigJs
                    ELSE /\ config_js' = "failed"
                         /\ handler' = "raised"
                         /\ build_pc' = "finished"
    /\ UNCHANGED <<conf, environ, static_files, page_scripts, backend, pagefind_log>>
    /\ UNCHANGED <<extract_vars, rerun_vars, backend_vars, aux_vars>>

\* index_documents, line 168: backend = get_backend(app)
GetBackend ==
    /\ build_pc = "get_backend"
    /\ backend' = BackendClassFor(GetEffectiveBackend(conf, environ))
    /\ build_pc' = "backend"
    /\ UNCHANGED <<conf, environ, static_files, page_scripts, config_js_calls, config_js,
                   handler, build_exception, pagefind_log>>
    /\ UNCHANGED <<extract_vars, rerun_vars, backend_vars, aux_vars>>

\* index_documents calls the TypesenseBackend: is_available() first (line
\* 171), and index_all() (line 177) only when that returned True
HandlerMayCall(o) ==
    /\ build_pc = "backend"
    /\ backend = "typesense"
    /\ IF o = "is_available" THEN ncalls = 0
       ELSE ncalls = 1 /\ results = <<Returned("is_available", 0, "True")>>

\* index_documents when the TypesenseBackend method it called has come back:
\* an exception leaves the handler, nothing catching it; is_available()
\* False makes it return (lines 171-173); after index_all() it returns
AfterBackendCall ==
    /\ build_pc = "backend"
    /\ backend = "typesense"
    /\ pc = "idle"
    /\ ncalls >= 1
    /\ Len(results) = ncalls
    /\ IF results[ncalls].kind = "raise"
       THEN handler' = "raised"
       ELSE /\ results[ncalls].op = "is_available" => results[ncalls].verdict = "False"
            /\ handler' = "returned"
    /\ build_pc' = "finished"
    /\ UNCHANGED <<conf, environ, static_files, page_scripts, config_js_calls, config_js,
                   backend, build_exception, pagefind_log>>
    /\ UNCHANGED <<extract_vars, rerun_vars, backend_vars, aux_vars>>

\* index_documents on a PagefindBackend, line 171: is_available() is whether
\* _find_pagefind_command finds a command; False makes the handler return
PagefindIsAvailable(found) ==
    /\ build_pc = "backend"
    /\ backend = "pagefind"
    /\ pagefind_log = <<>>
    /\ pagefind_log' = <<[op |-> "is_available", available |-> found, count |-> 0]>>
    /\ IF found THEN UNCHANGED <<handler, build_pc>>
       ELSE handler' = "returned" /\ build_pc' = "finished"
    /\ UNCHANGED <<conf, environ, static_files, page_scripts, config_js_calls, config_js,
                   backend, build_exception>>
    /\ UNCHANGED <<extract_vars, rerun_vars, backend_vars, aux_vars>>

\* what PagefindBackend.index_all can meet: no output directory, no command,
\* a run that times out, cannot start or exits non-zero, and a run that ends well
PagefindOutcomes ==
    {"no_outdir", "no_command", "TimeoutExpired", "FileNotFoundError", "OSError",
     "nonzero_exit", "ok"}

\* index_documents on a PagefindBackend, lines 177-178: index_all() returns
\* the page count the CLI printed, and 0 on every failure; the handler returns
PagefindIndexAll(outcome, page_count) ==
    /\ build_pc = "backend"
    /\ backend = "pagefind"
    /\ Len(pagefind_log) = 1
    /\ pagefind_log' = Append(pagefind_log,
            [op |-> "index_all", available |-> TRUE,
             count |-> IF outcome = "ok" THEN page_count ELSE 0])
    /\ outcome # "ok" => page_count = 0
    /\ handler' = "returned"
    /\ build_pc' = "finished"
    /\ UNCHANGED <<conf, environ, static_files, page_scripts, config_js_calls, config_js,
                   backend, build_exception>>
    /\ UNCHANGED <<extract_vars, rerun_vars, backend_vars, aux_vars>>

\* what conf.py and the environment can hold
BuildConfs ==
    [typesense_backend : VALID_BACKENDS \cup {"algolia"},
     typesense_api_key : {<<>>, <<"k">>},
     typesense_search_api_key : {<<>>, <<"s">>},
     typesense_enable_indexing : BOOLEAN,
     typesense_host : {DEFAULT_HOST},
     typesense_port : {DEFAULT_PORT},
     typesense_protocol : {DEFAULT_PROTOCOL},
     typesense_num_typos : {IntValue(DEFAULT_NUM_TYPOS)},
     typesense_per_page : {IntValue(DEFAULT_PER_PAGE)}]

Environs ==
    [TYPESENSE_API_KEY : {<<>>, << <<>> >>, << <<"e">> >>},
     TYPESENSE_SEARCH_API_KEY : {<<>>, << <<"f">> >>}]

\* one build, from config-inited to the end of build-finished, for every
\* conf.py and environment, a site of one page and a server that has no
\* collection yet and may reject the key
InitBuild ==
    /\ ExtractIdle(<<>>)
    /\ NoRerun
    /\ NoAux
    /\ BackendConstructed(DefaultConfig, <<PageGuide>>, [exists |-> FALSE, held |-> {}])
    /\ \E config \in BuildConfs, env \in Environs : ExtensionLoaded(config, env, "config-inited")

NextBuild ==
    \/ ValidateConfig
    \/ AddStaticFiles
    \/ InjectSearchAssets
    \/ \E exception \in BOOLEAN, write_outcome \in {"ok", "OSError"} :
            IndexDocuments(exception, write_outcome)
    \/ GetBackend
    \/ \E o \in {"is_available", "index_all"} : HandlerMayCall(o) /\ Call(o)
    \/ \E outcome \in IndexHealthOutcomes : Probe(outcome)
    \/ \E outcome \in {"ok", "RequestUnauthorized"} : Create(outcome)
    \/ Extract
    \/ Import("ok", {}, Len(documents))
    \/ AfterBackendCall
    \/ \E found \in BOOLEAN : PagefindIsAvailable(found)
    \/ \E outcome \in PagefindOutcomes, page_count \in 0..MaxPages :
            PagefindIndexAll(outcome, page_count)

SpecBuild == InitBuild /\ [][NextBuild]_vars

----------------------------------------------------------------------------
(* The frontend configurations the extension generates *)

\* the TYPESENSE_CONFIG object _write_config_js dumps into
\* _static/typesense-config.js, the port as an int; no file unless the
\* typesense backend is in effect
WriteConfigJs(config, env) ==
    IF GetEffectiveBackend(config, env) # "typesense" THEN <<>>
    ELSE <<[host |-> config.typesense_host,
            port |-> <<"int", config.typesense_port>>,
            protocol |-> config.typesense_protocol,
            apiKey |-> config.typesense_search_api_key,
            numTypos |-> config.typesense_num_typos,
            perPage |-> config.typesense_per_page]>>

\* GetTypesenseConfigScript that hands out the admin key
GetTypesenseConfigScript_AdminKey(config) ==
    <<[host |-> config.typesense_host,
       port |-> <<"str", config.typesense_port>>,
       protocol |-> config.typesense_protocol,
       apiKey |-> config.typesense_api_key,
       numTypos |-> config.typesense_num_typos,
       perPage |-> config.typesense_per_page]>>

\* templates.get_typesense_config_script(app): the object inside the <script>
GetTypesenseConfigScript(config) ==
    <<[host |-> config.typesense_host,
       port |-> <<"str", config.typesense_port>>,
       protocol |-> config.typesense_protocol,
       apiKey |-> config.typesense_search_api_key,
       numTypos |-> config.typesense_num_typos,
       perPage |-> config.typesense_per_page]>>

\* TypesenseBackend.get_config_script()
GetConfigScript(config) ==
    <<[host |-> config.typesense_host,
       port |-> <<"str", config.typesense_port>>,
       protocol |-> config.typesense_protocol,
       apiKey |-> config.typesense_search_api_key,
       numTypos |-> config.typesense_num_typos,
       perPage |-> config.typesense_per_page]>>

Generators == {"_write_config_js", "get_typesense_config_script", "get_config_script"}

\* one generator is run on conf, and on conf_twin as well
Generate(generator) ==
    /\ \A i \in DOMAIN frontend : frontend[i].generator # generator
    /\ frontend' = Append(frontend,
          [generator |-> generator,
           out |-> CASE generator = "_write_config_js" -> WriteConfigJs(conf, environ)
                     [] generator = "get_typesense_config_script" ->
                            GetTypesenseConfigScript(conf)
                     [] OTHER -> GetConfigScript(conf),
           twin |-> CASE generator = "_write_config_js" -> WriteConfigJs(conf_twin, environ)
                      [] generator = "get_typesense_config_script" ->
                            GetTypesenseConfigScript(conf_twin)
                      [] OTHER -> GetConfigScript(conf_twin)])
    /\ UNCHANGED <<tools, conf_twin, soup, located>>
    /\ UNCHANGED <<extract_vars, rerun_vars, backend_vars, build_vars>>

AdminKeys == {<<"k">>, <<"m">>, <<"s">>}

\* configurations with an admin key; the search key may be missing, and may
\* be the very string one of the admin keys is
FrontendConfs ==
    [typesense_backend : VALID_BACKENDS,
     typesense_api_key : AdminKeys,
     typesense_search_api_key : {<<>>, <<"s">>, <<"r">>},
     typesense_enable_indexing : BOOLEAN,
     typesense_host : {DEFAULT_HOST},
     typesense_port : {DEFAULT_PORT},
     typesense_protocol : {DEFAULT_PROTOCOL},
     typesense_num_typos : {IntValue(DEFAULT_NUM_TYPOS)},
     typesense_per_page : {IntValue(DEFAULT_PER_PAGE)}]

\* two configurations that differ in the value of the admin key and in
\* nothing else, under one environment
InitFrontend ==
    /\ ExtractIdle(<<>>)
    /\ NoRerun
    /\ BackendConstructed(DefaultConfig, <<>>, [exists |-> FALSE, held |-> {}])
    /\ \E config \in FrontendConfs, env \in Environs :
            ExtensionLoaded(config, env, "no_build")
    /\ \E key \in AdminKeys \ {conf.typesense_api_key} :
            conf_twin = [conf EXCEPT !.typesense_api_key = key]
    /\ tools = NoTools
    /\ frontend = <<>>
    /\ soup = NoSoup
    /\ located = <<>>

NextFrontend == \E generator \in Generators : Generate(generator)

SpecFrontend == InitFrontend /\ [][NextFrontend]_vars

----------------------------------------------------------------------------
(* The content locator *)

\* config.DEFAULT_CONTENT_SELECTORS, the registered default of
\* typesense_content_selectors
CONFIG_DEFAULT_CONTENT_SELECTORS ==
    <<".wy-nav-content-wrap", "article.bd-article", ".body", "article[role=main]", "main">>

\* the list _get_content_element falls back to (lines 508-514)
BackendFallbackSelectors ==
    <<".wy-nav-content-wrap", "article.bd-article", ".body", "article[role=main]", "main">>

\* themes.DEFAULT_CONTENT_SELECTORS
THEMES_DEFAULT_CONTENT_SELECTORS ==
    <<"article[role=main]", "main", ".body", ".document", "[role=main]">>

\* themes.THEME_SELECTORS, two of its entries
THEME_SELECTORS ==
    [theme \in {"furo", "alabaster"} |->
        IF theme = "furo" THEN <<"article[role=main]", ".content">>
        ELSE <<".body", ".document">>]

\* app.config.typesense_content_selectors as the code reads it: what conf.py
\* set, the registered default when it set nothing
ContentSelectorsValue(config) ==
    IF config.typesense_content_selectors = <<>> THEN CONFIG_DEFAULT_CONTENT_SELECTORS
    ELSE config.typesense_content_selectors[1]

\* `self.app.config.typesense_content_selectors or [...]`
GetSelectors(config) ==
    IF ContentSelectorsValue(config) # <<>> THEN ContentSelectorsValue(config)
    ELSE BackendFallbackSelectors

\* GetContentElement that keeps looking and returns the last match
RECURSIVE GetContentElement_LastMatch(_, _)
GetContentElement_LastMatch(selectors, page) ==
    IF selectors = <<>> THEN "None"
    ELSE IF GetContentElement_LastMatch(Tail(selectors), page) # "None"
         THEN GetContentElement_LastMatch(Tail(selectors), page)
         ELSE page.matches[Head(selectors)]

\* the loop `for selector in selectors` of _get_content_element
RECURSIVE GetContentElementFrom(_, _)
GetContentElementFrom(selectors, page) ==
    IF selectors = <<>> THEN "None"
    ELSE IF page.matches[Head(selectors)] # "None" THEN page.matches[Head(selectors)]
    ELSE GetContentElementFrom(Tail(selectors), page)

GetContentElement(selectors, page) == GetContentElementFrom(selectors, page)

\* the selectors a page is asked about
KnownSelectors ==
    {".wy-nav-content-wrap", "article.bd-article", ".body", "article[role=main]", "main",
     ".document", "[role=main]", ".content", ".my-content"}

\* parsed pages: at most two selectors match, the same element or two
Soups ==
    {[matches |-> [sel \in KnownSelectors |->
                      IF sel = s1 THEN e1 ELSE IF sel = s2 THEN e2 ELSE "None"]] :
        s1 \in KnownSelectors, s2 \in KnownSelectors, e1 \in {"None", "div1"},
        e2 \in {"None", "div1", "div2"}}

\* conf.py: the selectors not set, set to None or [], or set to a list; the
\* theme a registered one, an unknown one, or none
LocateConfigs ==
    [typesense_drop_existing : {FALSE}, typesense_doc_version : {<<>>}, language : {<<>>},
     typesense_content_selectors : {<<>>, << <<>> >>, << <<".my-content", "main">> >>},
     html_theme : {"furo", "alabaster", "unknown_theme"}]

\* _get_content_element(soup)
Locate ==
    /\ located = <<>>
    /\ located' = <<[selectors |-> GetSelectors(cfg),
                     element |-> GetContentElement(GetSelectors(cfg), soup)]>>
    /\ UNCHANGED <<tools, conf_twin, frontend, soup>>
    /\ UNCHANGED <<extract_vars, rerun_vars, backend_vars, build_vars>>

InitLocate ==
    /\ ExtractIdle(<<>>)
    /\ NoRerun
    /\ NoBuild
    /\ \E config \in LocateConfigs :
            BackendConstructed(config, <<>>, [exists |-> FALSE, held |-> {}])
    /\ tools = NoTools
    /\ conf_twin = DefaultConf
    /\ frontend = <<>>
    /\ soup \in Soups
    /\ located = <<>>

NextLocate == Locate

SpecLocate == InitLocate /\ [][NextLocate]_vars

----------------------------------------------------------------------------
(* PagefindBackend on its own *)

MaxPagefindCalls == 2

\* the ways to run Pagefind a machine can have
Tools == [python_pagefind : BOOLEAN, pagefind : BOOLEAN, npx : BOOLEAN]

\* _find_pagefind_command that asks for npx before the other two
FindPagefindCommand_NpxFirst(t) ==
    IF t.npx THEN <<"npx", "pagefind">>
    ELSE IF t.python_pagefind THEN <<"sys.executable", "-m", "pagefind">>
    ELSE IF t.pagefind THEN <<"pagefind">>
    ELSE <<>>

\* _find_pagefind_command: the command as a list, <<>> for None
FindPagefindCommand(t) ==
    IF t.python_pagefind THEN <<"sys.executable", "-m", "pagefind">>
    ELSE IF t.pagefind THEN <<"pagefind">>
    ELSE IF t.npx THEN <<"npx", "pagefind">>
    ELSE <<>>

\* what the CLI can print: a line of one of the three shapes the parser
\* knows, with a number, or nothing with a page count in it
Stdouts ==
    [shape : {"Indexed N pages", "on N pages", "N pages"}, n : 0..MaxPages]
        \cup {[shape |-> "no count", n |-> 0]}

\* _parse_page_count
ParsePageCount(output) ==
    IF output.shape \in {"Indexed N pages", "on N pages", "N pages"} THEN output.n ELSE 0

\* how subprocess.run can end: an exception, or a result with an exit code
\* and the captured output
Runs ==
    [kind : {"TimeoutExpired", "FileNotFoundError", "PermissionError", "OSError"},
     returncode : {0},
     stdout : {[shape |-> "no count", n |-> 0]}]
        \cup [kind : {"completed"}, returncode : {0, 1}, stdout : Stdouts]

\* the exceptions that are OSError or a subclass of it
OSErrors == {"OSError", "FileNotFoundError", "PermissionError"}

\* the except clauses of _run_pagefind: whether the run's exception gets out
RunRaises(run) ==
    /\ run.kind # "completed"
    /\ run.kind # "TimeoutExpired"
    /\ run.kind # "FileNotFoundError"
    /\ run.kind \notin OSErrors

\* _run_pagefind that reads the page count whatever the exit code
RunPagefind_IgnoresExitCode(run) ==
    IF run.kind # "completed" THEN 0
    ELSE ParsePageCount(run.stdout)

\* _run_pagefind, from the end of subprocess.run on
RunPagefind(run) ==
    IF run.kind # "completed" THEN 0
    ELSE IF run.returncode # 0 THEN 0
    ELSE ParsePageCount(run.stdout)

\* is_available()
PagefindBackendIsAvailable ==
    /\ Len(pagefind_log) < MaxPagefindCalls
    /\ pagefind_log' = Append(pagefind_log,
            [op |-> "is_available", available |-> FindPagefindCommand(tools) # <<>>,
             count |-> 0, command |-> FindPagefindCommand(tools), outdir |-> TRUE,
             started |-> 0, run |-> <<>>, raised |-> FALSE])
    /\ UNCHANGED <<conf, environ, build_pc, static_files, page_scripts, config_js_calls,
                   config_js, backend, handler, build_exception>>
    /\ UNCHANGED <<extract_vars, rerun_vars, backend_vars, aux_vars>>

\* index_all(): the output directory, then the command, then the one run
PagefindBackendIndexAll(outdir_exists, run) ==
    /\ Len(pagefind_log) < MaxPagefindCalls
    /\ LET command == IF outdir_exists THEN FindPagefindCommand(tools) ELSE <<>>
           runs == outdir_exists /\ command # <<>>
       IN pagefind_log' = Append(pagefind_log,
            [op |-> "index_all", available |-> command # <<>>,
             count |-> IF runs THEN RunPagefind(run) ELSE 0,
             command |-> command, outdir |-> outdir_exists,
             started |-> IF runs THEN 1 ELSE 0,
             run |-> IF runs THEN <<run>> ELSE <<>>,
             raised |-> runs /\ RunRaises(run)])
    /\ UNCHANGED <<conf, environ, build_pc, static_files, page_scripts, config_js_calls,
                   config_js, backend, handler, build_exception>>
    /\ UNCHANGED <<extract_vars, rerun_vars, backend_vars, aux_vars>>

InitPagefind ==
    /\ ExtractIdle(<<>>)
    /\ NoRerun
    /\ NoBuild
    /\ BackendConstructed([typesense_drop_existing |-> FALSE, typesense_doc_version |-> <<>>,
                           language |-> <<>>], <<>>, [exists |-> FALSE, held |-> {}])
    /\ tools \in Tools
    /\ conf_twin = DefaultConf
    /\ frontend = <<>>
    /\ soup = NoSoup
    /\ located = <<>>

NextPagefind ==
    \/ PagefindBackendIsAvailable
    \/ \E outdir_exists \in BOOLEAN, run \in Runs : PagefindBackendIndexAll(outdir_exists, run)

SpecPagefind == InitPagefind /\ [][NextPagefind]_vars

----------------------------------------------------------------------------
(* validate_config over every kind of conf.py *)

\* every setting validate_config looks at, valid and invalid
ValidateConfs ==
    [typesense_backend : VALID_BACKENDS \cup {"algolia"},
     typesense_api_key : {<<>>, <<"k">>},
     typesense_search_api_key : {<<>>, <<"s">>},
     typesense_enable_indexing : BOOLEAN,
     typesense_host : {"", DEFAULT_HOST},
     typesense_port : {"", DEFAULT_PORT},
     typesense_protocol : {"", "ftp", "http", "https"},
     typesense_num_typos : {NotAnInt, IntValue(-1), IntValue(0), IntValue(2), IntValue(3)},
     typesense_per_page : {NotAnInt, IntValue(0), IntValue(1)}]

ValidateEnvirons ==
    [TYPESENSE_API_KEY : {<<>>, << <<"e">> >>},
     TYPESENSE_SEARCH_API_KEY : {<<>>, << <<"f">> >>}]

InitValidate ==
    /\ ExtractIdle(<<>>)
    /\ NoRerun
    /\ NoAux
    /\ BackendConstructed(DefaultConfig, <<>>, [exists |-> FALSE, held |-> {}])
    /\ \E config \in ValidateConfs, env \in ValidateEnvirons :
            ExtensionLoaded(config, env, "config-inited")

\* config-inited: validate_config, and _add_static_files if it did not raise
NextValidate ==
    \/ ValidateConfig
    \/ AddStaticFiles

SpecValidate == InitValidate /\ [][NextValidate]_vars

----------------------------------------------------------------------------
(* Claims about the extraction pass (SpecExtract) *)

\* every character of every text fragment is white space
IsBlankText(fragments) ==
    \A i \in DOMAIN fragments : \A j \in DOMAIN fragments[i] : fragments[i][j] \in Whitespace

\* 0..3 for a non-blank h1..h4, -1 for every other element
HeadingLevel(element) ==
    IF IsBlankText(element.text) THEN -1
    ELSE CASE element.tag = "h1" -> 0 [] element.tag = "h2" -> 1
           [] element.tag = "h3" -> 2 [] element.tag = "h4" -> 3 [] OTHER -> -1

SetMax(S) == CHOOSE x \in S : \A y \in S : y <= x

\* the headings of level n at or before element k that no later heading of a
\* higher rank (up to k) has reset
LiveHeadings(n, k) ==
    {j \in 1..k : /\ HeadingLevel(page_elems[j]) = n
                  /\ \A m \in (j + 1)..k : HeadingLevel(page_elems[m]) \notin 0..(n - 1)}

\* what level n must read in a document emitted for element k
ExpectedLevel(n, k) ==
    IF LiveHeadings(n, k) = {} THEN <<>>
    ELSE GetTextStrip(page_elems[SetMax(LiveHeadings(n, k))].text)

LevelOf(d, n) ==
    CASE n = 0 -> d.lvl0 [] n = 1 -> d.lvl1 [] n = 2 -> d.lvl2 [] n = 3 -> d.lvl3

\* C1: every emitted document carries, at each of lvl0..lvl3, the text of the
\* latest non-blank heading of that level at or before its own element that no
\* later higher-ranked heading has reset, and the empty string if there is
\* none; a heading's own document carries its own text at its own level and
\* the empty string at every deeper level.
C1_HierarchyFollowsResetRule ==
    \A i \in DOMAIN docs :
        /\ \A n \in 0..3 : LevelOf(docs[i], n) = ExpectedLevel(n, doc_elem[i])
        /\ HeadingLevel(page_elems[doc_elem[i]]) \in 0..3 =>
             /\ LevelOf(docs[i], HeadingLevel(page_elems[doc_elem[i]])) =
                    GetTextStrip(page_elems[doc_elem[i]].text)
             /\ \A n \in (HeadingLevel(page_elems[doc_elem[i]]) + 1)..3 :
                    LevelOf(docs[i], n) = <<>>

\* an h2's document emitted after an h3 and then an h1: its lvl2 is empty
C1_Witness ==
    \E i \in DOMAIN docs :
        /\ docs[i].type = "lvl1"
        /\ docs[i].lvl0 # <<>>
        /\ docs[i].lvl2 = <<>>
        /\ \E a, b \in 1..doc_elem[i] :
              a < b /\ HeadingLevel(page_elems[a]) = 2 /\ HeadingLevel(page_elems[b]) = 0

\* C2: a loop iteration on an element whose trimmed text is empty yields no
\* document and leaves the hierarchy map as it was.
C2_BlankElementSkipped ==
    [][(/\ Len(page_elems') = Len(page_elems) + 1
        /\ IsBlankText(page_elems'[Len(page_elems')].text))
       => (docs' = docs /\ hierarchy' = hierarchy /\ doc_elem' = doc_elem)]_vars

\* a heading of white space alone was met after an h1 and an h2 had set their
\* levels: both levels still stand and only two documents exist
C2_Witness ==
    /\ Len(page_elems) = 3
    /\ page_elems[3].tag = "h1"
    /\ page_elems[3].text = << <<" ">> >>
    /\ hierarchy.lvl0 # <<>>
    /\ hierarchy.lvl1 # <<>>
    /\ Len(docs) = 2

----------------------------------------------------------------------------
(* Claims about the connection check (SpecConn) *)

Unavailable3 == <<"ServiceUnavailable", "ServiceUnavailable", "ServiceUnavailable">>

Slept(n, seconds) == [after |-> n, secs |-> seconds]

\* C3: when the first three probes of a fresh backend answer
\* ServiceUnavailable, the check sleeps 1 s after the first and 2 s after the
\* second, and after the third - with no further sleep and no further probe -
\* the verdict is unhealthy and the call has returned false (0 from index_all).
C3_ThreeUnavailableProbes ==
    /\ answers = SubSeq(Unavailable3, 1, 1) =>
          sleeps = <<Slept(1, 1)>> /\ pc = "probe" /\ server_available = "None"
    /\ answers = SubSeq(Unavailable3, 1, 2) =>
          sleeps = <<Slept(1, 1), Slept(2, 2)>> /\ pc = "probe" /\ server_available = "None"
    /\ answers = Unavailable3 =>
          /\ probes = 3
          /\ sleeps = <<Slept(1, 1), Slept(2, 2)>>
          /\ server_available = "False"
          /\ pc = "idle"
          /\ results # <<>>
          /\ results[1] \in {Returned("is_available", 0, "False"),
                             Returned("index_all", 0, "None")}

\* is_available() has returned false after three ServiceUnavailable answers
C3_Witness ==
    /\ answers = Unavailable3
    /\ results = <<Returned("is_available", 0, "False")>>
    /\ Len(sleeps) = 2

\* C4: a probe answered by RequestUnauthorized is the last probe ever made on
\* the backend: the verdict is unhealthy at once, no sleep follows that
\* attempt, and the call returns false (0 from index_all).
C4_UnauthorizedShortCircuits ==
    \A i \in DOMAIN answers :
        answers[i] = "RequestUnauthorized" =>
            /\ i = Len(answers)
            /\ probes = i
            /\ server_available = "False"
            /\ pc = "idle"
            /\ \A j \in DOMAIN sleeps : sleeps[j].after < i
            /\ results # <<>>
            /\ results[Len(results)] \in {Returned("is_available", 0, "False"),
                                          Returned("index_all", 0, "None")}

\* RequestUnauthorized at the third attempt, after two retried failures
C4_Witness ==
    /\ Len(answers) = 3
    /\ answers[3] = "RequestUnauthorized"
    /\ Len(sleeps) = 2
    /\ results = <<Returned("is_available", 0, "False")>>

\* C5: once a verdict is cached it never changes and no step probes or sleeps
\* again; every is_available() that returns, returns the cached verdict; and
\* when the first call is an is_available() that returned, the backend has
\* probed at most MAX_RETRIES times, whatever is called next.
C5_VerdictCachedForTheBuild ==
    /\ [][server_available # "None" =>
            /\ server_available' = server_available
            /\ probes' = probes
            /\ answers' = answers
            /\ sleeps' = sleeps]_vars
    /\ [](\A i \in DOMAIN results :
            (results[i].op = "is_available" /\ results[i].kind = "return")
                => results[i].verdict = server_available)
    /\ []((results # <<>> /\ results[1].op = "is_available" /\ results[1].kind = "return")
            => probes <= MAX_RETRIES)

\* is_available() returned true at the third probe; index_all() then ran
\* without probing and indexed the page
C5_Witness ==
    /\ Len(results) = 2
    /\ results[1] = Returned("is_available", 0, "True")
    /\ results[2].op = "index_all"
    /\ results[2].kind = "return"
    /\ results[2].count = 2
    /\ probes = 3

----------------------------------------------------------------------------
(* Claims about index_all (Spec) *)

\* the requests of call c, in order
RECURSIVE RequestsOf(_, _)
RequestsOf(rs, c) ==
    IF rs = <<>> THEN <<>>
    ELSE (IF Head(rs).call = c THEN <<Head(rs)>> ELSE <<>>) \o RequestsOf(Tail(rs), c)

KindsOf(rs) == [i \in DOMAIN rs |-> rs[i].kind]

\* the finished calls of index_all that got past the connection check, the
\* server found healthy
EnsuredCalls ==
    {c \in DOMAIN results :
        /\ results[c].op = "index_all"
        /\ server_available = "True"
        /\ ~(results[c].kind = "raise" /\ results[c].step = "probe")}

\* C6: index_all never raises an environmental failure (service unavailable,
\* timeout, network error, rejected credentials), and returns 0 whenever one
\* of its requests was answered by such a failure.
C6_IndexAllNeverRaisesEnvFailure ==
    \A c \in DOMAIN results :
        results[c].op = "index_all" =>
            /\ results[c].kind = "raise" => results[c].exc \notin EnvFailures
            /\ (\E i \in DOMAIN requests :
                    requests[i].call = c /\ requests[i].answer \in EnvFailures)
                 => results[c] = Returned("index_all", 0, "None")

\* C7: with the verdict unhealthy no collection request has been sent, no HTML
\* file read and no document extracted, the collection holds what it held,
\* and every index_all that got a verdict returned 0.
C7_UnhealthySkipsIndexing ==
    server_available = "False" =>
        /\ requests = <<>>
        /\ files_read = 0
        /\ documents = <<>>
        /\ coll_docs = coll_docs0
        /\ \A c \in DOMAIN results :
              (results[c].op = "index_all"
                 /\ ~(results[c].kind = "raise" /\ results[c].step = "probe"))
                => results[c] = Returned("index_all", 0, "None")

\* index_all returned 0 on an unhealthy verdict, with drop_existing set, files
\* to index and an old document in the collection, which is still there
C7_Witness ==
    /\ server_available = "False"
    /\ results = <<Returned("index_all", 0, "None")>>
    /\ cfg.typesense_drop_existing
    /\ files # <<>>
    /\ coll_docs = {OldDocId}

\* how _ensure_collection's requests of call c read in the server log
Answered(rs, kind) == {rs[i].answer : i \in {j \in DOMAIN rs : rs[j].kind = kind}}

CountOf(rs, kind) == Cardinality({j \in DOMAIN rs : rs[j].kind = kind})

\* what C8 says of one finished index_all but for its "the create is always
\* attempted": a delete iff drop_existing, as the first request; "not found"
\* tolerated; "already exists" taken as success; every other create failure
\* raised out of index_all
EnsureRules(c) ==
    LET rs == RequestsOf(requests, c)
    IN  /\ CountOf(rs, "delete") = (IF cfg.typesense_drop_existing THEN 1 ELSE 0)
        /\ \A i \in DOMAIN rs : rs[i].kind = "delete" => i = 1
        /\ \A i, j \in DOMAIN rs : (rs[i].kind = "create" /\ rs[j].kind = "import") => i < j
        /\ CountOf(rs, "create") <= 1
        /\ "ObjectNotFound" \in Answered(rs, "delete") =>
              ~(results[c].kind = "raise" /\ results[c].step = "delete")
        /\ \A a \in Answered(rs, "create") :
              IF a \in {"ok", "ObjectAlreadyExists"}
              THEN ~(results[c].kind = "raise" /\ results[c].step = "create")
              ELSE results[c] = Raised("index_all", a, "create")

C9_OldDocumentGoneAfterIndexAll ==
    (/\ cfg.typesense_drop_existing
     /\ OldDocId \in coll_docs0
     /\ \E c \in DOMAIN results : results[c].op = "index_all")
        => OldDocId \notin coll_docs

\* C9, amended: with drop_existing set and old_doc in the collection, once an
\* index_all has finished that found the server healthy and whose delete
\* request did not fail, the collection does not hold old_doc.
C9_OldDocumentGoneAfterDrop ==
    (/\ cfg.typesense_drop_existing
     /\ OldDocId \in coll_docs0
     /\ \E c \in EnsuredCalls : ~(results[c].kind = "raise" /\ results[c].step = "delete"))
        => OldDocId \notin coll_docs

\* index_all has dropped the collection that held old_doc and imported the
\* new documents
C9_Witness ==
    /\ cfg.typesense_drop_existing
    /\ OldDocId \in coll_docs0
    /\ results = <<Returned("index_all", 2, "None")>>
    /\ coll_docs # {}
    /\ OldDocId \notin coll_docs

\* C10: with drop_existing set, the server healthy and serving every request,
\* and no document of the import rejected, the count index_all returns is the
\* number of documents the collection holds.
C10_ReturnedCountIsCollectionSize ==
    (/\ pc = "idle"
     /\ cfg.typesense_drop_existing
     /\ server_available = "True"
     /\ results # <<>>
     /\ results[Len(results)].op = "index_all"
     /\ results[Len(results)].kind = "return"
     /\ error_count = 0
     /\ \A i \in DOMAIN requests :
           requests[i].answer \in {"ok", "ObjectNotFound", "ObjectAlreadyExists"})
        => results[Len(results)].count = Cardinality(coll_docs)

\* C11: no two documents accumulated in one index_all run share an id,
\* whether they come from the same page or from different pages.
C11_DocumentIdsUnique ==
    \A i, j \in DOMAIN documents : i # j => documents[i].id # documents[j].id

----------------------------------------------------------------------------
(* Claims about a repeated extraction (SpecReextract) *)

\* the documents of both passes
BothPasses == docs \o (IF earlier = <<>> THEN <<>> ELSE earlier[1])

\* C12: a second extraction of the same file, started with fresh state,
\* yields the same sequence of documents as the first, ids included, and any
\* two documents with the same url and the same first 100 characters of
\* content carry the same id, wherever they stand and whichever pass made them.
C12_ReextractionIdentical ==
    /\ (earlier # <<>> /\ pos = Len(page_elems)) => docs = earlier[1]
    /\ \A i, j \in DOMAIN BothPasses :
          (/\ BothPasses[i].url = BothPasses[j].url
           /\ Take(BothPasses[i].content, 100) = Take(BothPasses[j].content, 100))
          => BothPasses[i].id = BothPasses[j].id

\* a heading, then two paragraphs that differ only after their 100th
\* character, extracted twice to the end
C12_Witness ==
    /\ earlier # <<>>
    /\ pos = Len(page_elems)
    /\ Len(docs) = 3
    /\ docs[1].type = "lvl0"
    /\ Len(docs[2].content) > 100
    /\ docs[2].content # docs[3].content
    /\ docs[2].id = docs[3].id

----------------------------------------------------------------------------
(* Claims about anchors and urls (SpecAnchor) *)

\* C13: every emitted document has url = url_without_anchor + "#" + anchor
\* when its anchor is not empty, and url = url_without_anchor when it is.
C13_UrlCarriesAnchor ==
    \A i \in DOMAIN docs :
        IF docs[i].anchor # <<>>
        THEN docs[i].url = docs[i].url_without_anchor \o <<"#">> \o docs[i].anchor
        ELSE docs[i].url = docs[i].url_without_anchor

\* a paragraph with no anchor anywhere has been emitted with the bare url
C13_Witness ==
    /\ Len(docs) = 1
    /\ docs[1].type = "content"
    /\ docs[1].anchor = <<>>
    /\ docs[1].url = GuideUrl
    /\ page_elems[1].prev # <<>>

\* the guide page has been extracted to its end
GuideExtracted == page_elems = <<GuideH1, GuideP>>

\* what is said of the guide page's two documents but for the paragraph's url
GuideDocuments ==
    /\ Len(docs) = 2
    /\ docs[1].type = "lvl0"
    /\ docs[1].lvl0 = <<"I", "n", "s", "t", "a", "l", "l">>
    /\ docs[1].anchor = <<"x">>
    /\ docs[1].url = GuideUrl \o <<"#", "x">>
    /\ docs[1].weight = 100
    /\ docs[2].type = "content"
    /\ docs[2].content = <<"S", "t", "e", "p", "s", " ", "h", "e", "r", "e">>
    /\ docs[2].lvl0 = <<"I", "n", "s", "t", "a", "l", "l">>

\* C14 as claimed: guide.html with <h1 id="x">Install</h1><p>Steps here</p>
\* yields exactly two documents, the lvl0 one with anchor x, url guide.html#x
\* and weight 100, and the content one with url guide.html#x as well.
C14_ParagraphInheritsAnchor ==
    GuideExtracted => (GuideDocuments /\ docs[2].url = GuideUrl \o <<"#", "x">>)

\* C14: guide.html with <h1 id="x">Install</h1><p>Steps here</p> yields
\* exactly two documents, the lvl0 one with anchor x, url guide.html#x and
\* weight 100, and the content one, under lvl0 Install, with the empty anchor
\* and the url guide.html: the heading before it is no <a> and no section
\* encloses it.
C14_ParagraphHasNoAnchor ==
    GuideExtracted =>
        (GuideDocuments /\ docs[2].anchor = <<>> /\ docs[2].url = GuideUrl)

C14_Witness ==
    /\ GuideExtracted
    /\ Len(docs) = 2
    /\ docs[2].url_without_anchor = GuideUrl

\* the first of the candidates that is there, the empty string if none is
RECURSIVE FirstHit(_)
FirstHit(candidates) ==
    IF candidates = <<>> THEN <<>>
    ELSE IF Head(candidates) # <<>> THEN Head(candidates)[1]
    ELSE FirstHit(Tail(candidates))

\* the places an anchor is looked for, in the order of the rule
AnchorCandidates(element) ==
    << element.id,
       element.a_id,
       element.a_name,
       IF element.prev # <<>> /\ element.prev[1].name = "a" THEN element.prev[1].id ELSE <<>>,
       IF element.section # <<>> THEN element.section[1].label ELSE <<>>,
       IF element.section # <<>> THEN element.section[1].id ELSE <<>> >>

\* C15: the anchor of every emitted document is the first there is among its
\* element's own id, the id of its first descendant <a id>, the name of its
\* first descendant <a name>, the id of its previous sibling when that is an
\* <a id>, the id of its nearest enclosing section's labelled span, and that
\* section's own id; it is the empty string when there is none.
C15_AnchorIsFirstHit ==
    \A i \in DOMAIN docs :
        /\ docs[i].anchor = FirstHit(AnchorCandidates(page_elems[doc_elem[i]]))
        /\ FindAnchor(page_elems[doc_elem[i]]) = docs[i].anchor

\* an element with own id a, a child anchor b and an anchor name c, in a
\* labelled section, resolved to a; and behind it in the order, nothing lost
C15_Witness ==
    /\ Len(docs) = 1
    /\ page_elems[1].id = << <<"a">> >>
    /\ page_elems[1].a_id = << <<"b">> >>
    /\ page_elems[1].a_name = << <<"c">> >>
    /\ page_elems[1].section # <<>>
    /\ docs[1].anchor = <<"a">>

----------------------------------------------------------------------------
(* Claims about one build (SpecBuild) *)

\* an admin API key is there, in the configuration or in the environment; a
\* variable set to the empty string holds no key
AdminKeyPresent ==
    \/ conf.typesense_api_key # <<>>
    \/ (environ.TYPESENSE_API_KEY # <<>> /\ environ.TYPESENSE_API_KEY[1] # <<>>)

\* the backend the rule of C16 names for the configuration at hand
BackendByRule ==
    CASE conf.typesense_backend = "auto" ->
            (IF AdminKeyPresent THEN "typesense" ELSE "pagefind")
      [] OTHER -> conf.typesense_backend

\* C16: get_effective_backend answers "typesense" for "auto" iff an admin API
\* key is present in the configuration or in TYPESENSE_API_KEY and "pagefind"
\* for "auto" otherwise, and answers an explicit "typesense" or "pagefind" as
\* it is; so does every handler that has asked it.
C16_EffectiveBackend ==
    /\ conf.typesense_backend \in VALID_BACKENDS =>
          GetEffectiveBackend(conf, environ) = BackendByRule
    /\ static_files # "none" => static_files = BackendByRule
    /\ \A i \in DOMAIN page_scripts : page_scripts[i] = BackendByRule
    /\ backend # "none" => backend = BackendByRule

\* "auto" with the key in the environment only has registered the typesense
\* assets, and "auto" with a variable set but empty is a case as well
C16_Witness ==
    /\ conf.typesense_backend = "auto"
    /\ environ.TYPESENSE_API_KEY = << <<"e">> >>
    /\ static_files = "typesense"
    /\ backend = "typesense"

\* the backends the steps of the build have acted for so far
UsedBackends ==
    ({static_files, backend} \ {"none"})
        \cup {page_scripts[i] : i \in DOMAIN page_scripts}
        \cup (IF config_js \in {"written", "failed"} THEN {"typesense"} ELSE {})
        \cup (IF config_js = "skipped" THEN {"pagefind"} ELSE {})

\* C17: static-asset registration, per-page script injection, the config-asset
\* write and the backend instance of one build all act for the same backend.
C17_OneBackendPerBuild == Cardinality(UsedBackends) <= 1

\* all four steps have acted, two pages rendered, and index_all has run
C17_Witness ==
    /\ static_files = "typesense"
    /\ Len(page_scripts) = MaxPages
    /\ config_js = "written"
    /\ backend = "typesense"
    /\ Len(results) = 2
    /\ handler = "returned"

\* C18: when index_documents is given an exception it returns without calling
\* _write_config_js, constructing a backend, probing or calling index_all.
C18_FailedBuildSkipsEverything ==
    build_exception =>
        /\ handler = "returned"
        /\ config_js_calls = 0
        /\ config_js = "absent"
        /\ backend = "none"
        /\ probes = 0
        /\ ncalls = 0
        /\ pagefind_log = <<>>

\* a failed build whose configuration asks for indexing on the typesense backend
C18_Witness ==
    /\ build_exception
    /\ handler = "returned"
    /\ conf.typesense_enable_indexing
    /\ static_files = "typesense"
    /\ Len(page_scripts) = 1

\* the index_all calls started so far, on either backend
IndexAllCalls ==
    Cardinality({i \in DOMAIN results : results[i].op = "index_all"})
        + (IF op = "index_all" THEN 1 ELSE 0)
        + Cardinality({i \in DOMAIN pagefind_log : pagefind_log[i].op = "index_all"})

BackendTouched ==
    backend # "none" \/ probes > 0 \/ ncalls > 0 \/ pagefind_log # <<>>

\* what C19 says besides the write itself
IndexingOrder ==
    /\ ~conf.typesense_enable_indexing => ~BackendTouched
    /\ IndexAllCalls <= 1
    /\ IndexAllCalls = 1 => config_js_calls = 1

C20_HandlerNeverRaises == handler # "raised"

----------------------------------------------------------------------------
(* Claims about validate_config (SpecValidate) *)

\* validate_config has returned without raising
ValidateReturned == build_pc \in {"validated", "building"}

\* C26: when validate_config has returned without raising and indexing is
\* enabled, the backend is auto, typesense or pagefind, the protocol is http
\* or https, num_typos is an integer in 0..2, per_page an integer >= 1 and,
\* the typesense backend in effect, host, port, protocol and both keys (after
\* environment fallback) are non-empty; an invalid backend name always raises;
\* with the pagefind backend in effect no missing key makes it raise.
C26_ValidatedConfig ==
    /\ (ValidateReturned /\ conf.typesense_enable_indexing) =>
          /\ conf.typesense_backend \in {"auto", "typesense", "pagefind"}
          /\ conf.typesense_protocol \in {"http", "https"}
          /\ conf.typesense_num_typos.is_int
          /\ conf.typesense_num_typos.val \in 0..2
          /\ conf.typesense_per_page.is_int
          /\ conf.typesense_per_page.val >= 1
          /\ GetEffectiveBackend(conf, environ) = "typesense" =>
                /\ conf.typesense_host # ""
                /\ conf.typesense_port # ""
                /\ conf.typesense_protocol # ""
                /\ conf.typesense_api_key # <<>>
                /\ conf.typesense_search_api_key # <<>>
    /\ conf.typesense_backend \notin {"auto", "typesense", "pagefind"} => ~ValidateReturned
    /\ (/\ build_pc = "aborted"
        /\ conf.typesense_backend \in {"auto", "pagefind"}
        /\ GetEffectiveBackend(conf, environ) = "pagefind") =>
          \/ conf.typesense_protocol \notin {"http", "https"}
          \/ ~conf.typesense_num_typos.is_int
          \/ conf.typesense_num_typos.val \notin 0..2
          \/ ~conf.typesense_per_page.is_int
          \/ conf.typesense_per_page.val < 1

\* a forced typesense backend whose keys both came from the environment has
\* passed validation
C26_Witness ==
    /\ build_pc = "building"
    /\ conf.typesense_enable_indexing
    /\ conf.typesense_backend = "typesense"
    /\ conf.typesense_api_key = <<"e">>
    /\ conf.typesense_search_api_key = <<"f">>
    /\ conf.typesense_num_typos = IntValue(0)

----------------------------------------------------------------------------
(* Claims about the generated frontend configurations (SpecFrontend) *)

\* C21: in every generated frontend configuration apiKey is the search key,
\* and the configuration generated for a twin that differs only in the value
\* of its non-empty admin key is the same.
C21_ApiKeyIsSearchKey ==
    \A i \in DOMAIN frontend :
        /\ frontend[i].out = frontend[i].twin
        /\ frontend[i].out # <<>> => frontend[i].out[1].apiKey = conf.typesense_search_api_key

\* all three generated, the asset included, with a search key that differs
\* from both admin keys
C21_Witness ==
    /\ Len(frontend) = 3
    /\ \A i \in DOMAIN frontend : frontend[i].out # <<>>
    /\ conf.typesense_search_api_key = <<"r">>
    /\ conf.typesense_api_key # conf_twin.typesense_api_key

----------------------------------------------------------------------------
(* Claims about the content locator (SpecLocate) *)

\* the selector list the rule of C22 names: the override if conf.py gave one,
\* else the registry entry of the active theme, else the generic list
SelectorsByRule ==
    IF cfg.typesense_content_selectors # <<>> /\ cfg.typesense_content_selectors[1] # <<>>
    THEN cfg.typesense_content_selectors[1]
    ELSE IF cfg.html_theme \in DOMAIN THEME_SELECTORS THEN THEME_SELECTORS[cfg.html_theme]
    ELSE <<"article[role=main]", "main", ".body", ".document", "[role=main]">>

\* C22: the locator used while indexing tries the override list if one is
\* given, else the registry entry of the active theme, else the generic list
\* article[role=main], main, .body, .document, [role=main], in that order.
C22_SelectorsFollowTheme ==
    located # <<>> => located[1].selectors = SelectorsByRule

\* the positions in the tried list whose selector matches something
Matching == {i \in DOMAIN located[1].selectors : soup.matches[located[1].selectors[i]] # "None"}

\* C23: the locator returns the element of the first selector, in list order,
\* that matches anything, whatever later selectors match, and none when no
\* selector matches.
C23_FirstMatchWins ==
    located # <<>> =>
        IF Matching = {} THEN located[1].element = "None"
        ELSE \E i \in Matching :
                /\ \A j \in Matching : i <= j
                /\ located[1].element = soup.matches[located[1].selectors[i]]

\* two selectors of the list match different elements; the earlier one's is returned
C23_Witness ==
    /\ located # <<>>
    /\ Cardinality(Matching) = 2
    /\ located[1].element = "div2"
    /\ \E i \in Matching : soup.matches[located[1].selectors[i]] = "div1"

----------------------------------------------------------------------------
(* Claims about PagefindBackend (SpecPagefind) *)

\* the calls made to the backend that looked for a command
CommandSearches ==
    {i \in DOMAIN pagefind_log : pagefind_log[i].op = "is_available" \/ pagefind_log[i].outdir}

\* C24: the command is python -m pagefind when the Python package is there,
\* else pagefind when that is on the path, else npx pagefind when npx is; an
\* earlier available option wins; with none there the command is None,
\* is_available() is false and index_all returns 0.
C24_CommandOrder ==
    \A i \in CommandSearches :
        LET call == pagefind_log[i] IN
        /\ tools.python_pagefind => call.command = <<"sys.executable", "-m", "pagefind">>
        /\ ~tools.python_pagefind /\ tools.pagefind => call.command = <<"pagefind">>
        /\ ~tools.python_pagefind /\ ~tools.pagefind /\ tools.npx
                => call.command = <<"npx", "pagefind">>
        /\ ~tools.python_pagefind /\ ~tools.pagefind /\ ~tools.npx
                => /\ call.command = <<>>
                   /\ call.op = "is_available" => ~call.available
                   /\ call.op = "index_all" => call.count = 0 /\ call.started = 0

\* npx and the pagefind command are both there and the pagefind command is
\* used to index; on another machine nothing is there and both calls say so
C24_Witness ==
    /\ tools.npx /\ tools.pagefind /\ ~tools.python_pagefind
    /\ \E i \in DOMAIN pagefind_log :
            /\ pagefind_log[i].op = "index_all"
            /\ pagefind_log[i].command = <<"pagefind">>
            /\ pagefind_log[i].count > 0

\* the index_all calls
IndexAlls == {i \in DOMAIN pagefind_log : pagefind_log[i].op = "index_all"}

\* a run that failed: could not start, timed out, exited non-zero, or printed
\* nothing with a page count in it
RunFailed(run) ==
    \/ run.kind \in {"TimeoutExpired", "FileNotFoundError", "PermissionError", "OSError"}
    \/ run.kind = "completed" /\ run.returncode # 0
    \/ run.kind = "completed" /\ run.stdout.shape = "no count"

\* C25: index_all returns 0, without raising, when the build directory is
\* missing, no command is found, the process cannot be started, exits
\* non-zero, times out or prints no parseable page count; the process is
\* started at most once per call and only after the directory and a command
\* were found.
C25_IndexAllFailsToZero ==
    \A i \in IndexAlls :
        LET call == pagefind_log[i] IN
        /\ ~call.raised
        /\ call.started <= 1
        /\ call.started = 1 <=> call.outdir /\ FindPagefindCommand(tools) # <<>>
        /\ call.started = 1 <=> call.run # <<>>
        /\ ~call.outdir => call.count = 0
        /\ FindPagefindCommand(tools) = <<>> => call.count = 0
        /\ call.run # <<>> /\ RunFailed(call.run[1]) => call.count = 0

\* a run that printed a page count and exited non-zero came back as 0, and a
\* call with no build directory started nothing
C25_Witness ==
    /\ \E i \in IndexAlls :
            /\ pagefind_log[i].run # <<>>
            /\ pagefind_log[i].run[1].returncode = 1
            /\ pagefind_log[i].run[1].stdout.n > 0
            /\ pagefind_log[i].count = 0
    /\ \E i \in IndexAlls : ~pagefind_log[i].outdir /\ pagefind_log[i].started = 0

----------------------------------------------------------------------------
(* Claims about the emitted documents (SpecExtract) *)

\* the ranking value C27 gives for a document type
TableValue(doc_type) ==
    CASE doc_type = "lvl0" -> 100 [] doc_type = "lvl1" -> 90 [] doc_type = "lvl2" -> 80
      [] doc_type = "lvl3" -> 70 [] doc_type = "content" -> 50

\* C27: every emitted document has a type among lvl0, lvl1, lvl2, lvl3 and
\* content; its content is empty exactly when the type is a heading level
\* and non-empty exactly when it is content; its weight and item_priority
\* are both the table value of its type.
C27_TypeContentWeight ==
    \A i \in DOMAIN docs :
        /\ docs[i].type \in {"lvl0", "lvl1", "lvl2", "lvl3", "content"}
        /\ docs[i].content = <<>> <=> docs[i].type \in {"lvl0", "lvl1", "lvl2", "lvl3"}
        /\ docs[i].content # <<>> <=> docs[i].type = "content"
        /\ docs[i].weight = TableValue(docs[i].type)
        /\ docs[i].item_priority = TableValue(docs[i].type)

\* a page with a heading, a paragraph and an element of white space alone
\* gave one heading document and one content document
C27_Witness ==
    /\ \E i \in DOMAIN docs : docs[i].type = "lvl1" /\ docs[i].weight = 90
    /\ \E i \in DOMAIN docs : docs[i].type = "content" /\ docs[i].content = <<"a">>
    /\ \E k \in DOMAIN page_elems :
            /\ page_elems[k].tag = "p"
            /\ page_elems[k].text = << <<" ">> >>
            /\ \A i \in DOMAIN doc_elem : doc_elem[i] # k

----------------------------------------------------------------------------
(* Claims about the connection (SpecConn) *)

\* the number of times the backend has reached for its client: once per
\* health probe and once per request to the collection
ClientAccesses == probes + Len(requests)

\* C28: the client is built lazily and at most once: none exists before the
\* first access, and over any sequence of availability checks and index_all
\* calls on one backend the constructor has run exactly once from the first
\* access on, every access getting the client it built.
C28_ClientBuiltOnce ==
    /\ clients_made <= 1
    /\ ClientAccesses = 0 => clients_made = 0 /\ client = "None"
    /\ ClientAccesses > 0 => clients_made = 1 /\ client = "Client"

\* two calls on one backend, three probes and a request behind it, one client
C28_Witness ==
    /\ ncalls >= 2
    /\ probes >= 3
    /\ Len(requests) >= 1
    /\ clients_made = 1

\* the probe outcomes C29 calls transient: a False answer, ServiceUnavailable,
\* Timeout, HTTPStatus0Error, and ConnectionError/TimeoutError/OSError
Transient == {"unhealthy", "ServiceUnavailable", "Timeout", "HTTPStatus0Error", "ConnectionError"}

\* the attempt number of the i-th probe of the backend within its run of
\* _check_connection: one more than the probe before it when that one was
\* transient with attempts left, else 1
RECURSIVE AttemptOf(_)
AttemptOf(i) ==
    IF i = 1 THEN 1
    ELSE IF answers[i - 1] \in Transient /\ AttemptOf(i - 1) < 3 THEN AttemptOf(i - 1) + 1
    ELSE 1

\* the sleeps taken after the probes from..to
SleepsWithin(from, to) == {j \in DOMAIN sleeps : sleeps[j].after \in from..to}

\* C29: a run of _check_connection makes at most 3 probes and sleeps at most
\* twice, 1 s then 2 s. A transient outcome with attempts left is followed by
\* the sleep of its attempt and another probe; the first healthy probe, at
\* attempt k, ends the run with verdict healthy after exactly k-1 sleeps and
\* no further probe; three transient outcomes end it with verdict unhealthy.
C29_BoundedRetry ==
    /\ \A i \in DOMAIN answers :
        LET k == AttemptOf(i) IN
        /\ answers[i] \in Transient /\ k < 3 =>
                /\ \E j \in DOMAIN sleeps :
                        sleeps[j] = [after |-> i, secs |-> IF k = 1 THEN 1 ELSE 2]
                /\ i = Len(answers) => pc = "probe" /\ server_available = "None"
        /\ answers[i] \in Transient /\ k = 3 =>
                /\ i = Len(answers)
                /\ server_available = "False"
                /\ pc # "probe"
                /\ SleepsWithin(i, i) = {}
                /\ Cardinality(SleepsWithin(i - 2, i)) = 2
        /\ answers[i] = "healthy" =>
                /\ i = Len(answers)
                /\ server_available = "True"
                /\ pc # "probe"
                /\ SleepsWithin(i, i) = {}
                /\ Cardinality(SleepsWithin(i - k + 1, i)) = k - 1
    /\ \A j \in DOMAIN sleeps :
        /\ sleeps[j].after \in DOMAIN answers
        /\ answers[sleeps[j].after] \in Transient
        /\ AttemptOf(sleeps[j].after) < 3
        /\ \A j2 \in DOMAIN sleeps : j < j2 => sleeps[j].after < sleeps[j2].after

\* a False answer, then a Timeout, then a healthy probe: two sleeps, 1 s and
\* 2 s, and the verdict healthy
C29_Witness ==
    /\ answers = <<"unhealthy", "Timeout", "healthy">>
    /\ sleeps = <<[after |-> 1, secs |-> 1], [after |-> 2, secs |-> 2]>>
    /\ server_available = "True"

----------------------------------------------------------------------------
(* Claims about the bulk import (Spec) *)

\* the import requests the server has seen
Imports == {i \in DOMAIN requests : requests[i].kind = "import"}

\* C30: an index_all call publishes by one bulk import with action upsert:
\* at most one import per call, made only after a pass over every HTML file,
\* only when at least one document was extracted, and carrying every
\* document extracted from the files.
C30_SingleBulkImport ==
    /\ \A i \in Imports, j \in Imports : requests[i].call = requests[j].call => i = j
    /\ Cardinality(Imports) * Len(files) <= files_read
    /\ \A i \in Imports :
        /\ requests[i].action = "upsert"
        /\ requests[i].sent # <<>>
        /\ requests[i].sent = ExtractAll(cfg, files)
        /\ files_read >= Len(files)
    /\ pc = "import" => documents = ExtractAll(cfg, files) /\ documents # <<>>

\* two HTML files were read and one import carried the documents of both
C30_Witness ==
    /\ Len(files) = 2
    /\ files_read = 2
    /\ Cardinality(Imports) = 1
    /\ \E i \in Imports :
            /\ requests[i].answer = "ok"
            /\ \E a, b \in DOMAIN requests[i].sent :
                    requests[i].sent[a].url_without_anchor # requests[i].sent[b].url_without_anchor

\* the exceptions of the bulk import C31 calls network failures;
\* ConnectionError, TimeoutError and OSError share one except clause
ImportNetworkFailures == {"ServiceUnavailable", "Timeout", "HTTPStatus0Error", "ConnectionError"}

\* C31: when the bulk import raises a network failure, index_all catches it
\* and returns 0, however many documents it had extracted.
C31_ImportFailureReturnsZero ==
    \A i \in Imports :
        requests[i].answer \in ImportNetworkFailures =>
            /\ requests[i].call \in DOMAIN results
            /\ results[requests[i].call] = Returned("index_all", 0, "None")

\* an import of several documents timed out and index_all returned 0
C31_Witness ==
    \E i \in Imports :
        /\ requests[i].answer = "Timeout"
        /\ Len(requests[i].sent) >= 2
        /\ results[requests[i].call] = Returned("index_all", 0, "None")

IsGoodPage(f) == f.readable /\ f.has_content

\* the files that can be read and hold a content root, in the order of the run
GoodPages == SelectSeq(files, IsGoodPage)

\* the urls of the files that cannot be read or hold no content root
BadUrls == {files[k].url : k \in {n \in DOMAIN files : ~IsGoodPage(files[n])}}

\* C33: a file that cannot be read or decoded, or in which no content root is
\* found, contributes no document and does not stop the run: what index_all
\* accumulates and publishes is what the other files yield, in their order.
C33_BadPageSkipped ==
    /\ documents # <<>> => documents = ExtractAll(cfg, GoodPages)
    /\ \A i \in DOMAIN documents : documents[i].url_without_anchor \notin BadUrls
    /\ \A i \in Imports :
        /\ requests[i].sent = ExtractAll(cfg, GoodPages)
        /\ \A k \in DOMAIN GoodPages :
                \E d \in DOMAIN requests[i].sent :
                    requests[i].sent[d].url_without_anchor = GoodPages[k].url
    /\ (files_read > 0 /\ GoodPages # <<>>) => pc = "import" \/ Imports # {}

\* the first file could not be decoded and the documents of the second were
\* published
C33_Witness ==
    /\ Len(files) = 2
    /\ ~files[1].readable
    /\ IsGoodPage(files[2])
    /\ \E i \in Imports :
            /\ requests[i].answer = "ok"
            /\ Len(requests[i].sent) = 2
            /\ results[requests[i].call] = Returned("index_all", 2, "None")

----------------------------------------------------------------------------
(* Claims about the documents of one page (SpecExtract) *)

\* the elements of the page, by position, whose trimmed text is not empty
TextElements == {k \in DOMAIN page_elems : ~IsBlankText(page_elems[k].text)}

\* the document type C34 gives for a tag
TypeOfTag(tag) ==
    CASE tag = "h1" -> "lvl0" [] tag = "h2" -> "lvl1" [] tag = "h3" -> "lvl2"
      [] tag = "h4" -> "lvl3" [] tag \in {"p", "li"} -> "content"

\* C34: the page's documents are one per h1/h2/h3/h4/p/li element with
\* non-empty trimmed text, in document order, and no other: the i-th
\* document belongs to the i-th such element, has the type of its tag
\* (h1..h4 giving lvl0..lvl3, p and li giving content) and, for p and li,
\* the element's trimmed text as content.
C34_OneDocumentPerElement ==
    /\ Len(docs) = Cardinality(TextElements)
    /\ Len(doc_elem) = Len(docs)
    /\ \A i \in DOMAIN docs :
        /\ doc_elem[i] \in TextElements
        /\ Cardinality({k \in TextElements : k <= doc_elem[i]}) = i
        /\ docs[i].type = TypeOfTag(page_elems[doc_elem[i]].tag)
        /\ docs[i].type = "content"
                => docs[i].content = GetTextStrip(page_elems[doc_elem[i]].text)

\* a list item, an element of white space alone and a heading: two documents,
\* the second one the heading's
C34_Witness ==
    /\ Len(page_elems) = 3
    /\ page_elems[1].tag = "li"
    /\ page_elems[2].text = << <<" ">> >>
    /\ page_elems[3].tag = "h4"
    /\ Len(docs) = 2
    /\ docs[1].type = "content"
    /\ docs[1].content = <<"b", "a">>
    /\ docs[2].type = "lvl3"
    /\ doc_elem = <<1, 3>>

\* C35: every emitted document carries the seven hierarchy fields lvl0..lvl6,
\* and lvl4, lvl5 and lvl6 are the empty string whatever headings the page has.
C35_DeepLevelsEmpty ==
    \A i \in DOMAIN docs :
        /\ {"lvl0", "lvl1", "lvl2", "lvl3", "lvl4", "lvl5", "lvl6"} \subseteq DOMAIN docs[i]
        /\ docs[i].lvl4 = <<>>
        /\ docs[i].lvl5 = <<>>
        /\ docs[i].lvl6 = <<>>

\* a document under an h1, an h4 and nothing between: lvl0 and lvl3 are set,
\* lvl4 is empty
C35_Witness ==
    \E i \in DOMAIN docs :
        /\ docs[i].lvl0 # <<>>
        /\ docs[i].lvl3 # <<>>
        /\ docs[i].lvl1 = <<>>
        /\ docs[i].lvl4 = <<>>

\* C37: a document is a snapshot: no later loop iteration alters a document
\* already emitted, its hierarchy values included, although the page's one
\* hierarchy map goes on changing.
C37_DocumentsAreSnapshots ==
    [][\A i \in DOMAIN docs :
            /\ i \in DOMAIN docs'
            /\ docs'[i] = docs[i]]_vars

\* the first document still says lvl0 = "a" after a later h1 has set the
\* map's lvl0 to "ba"
C37_Witness ==
    /\ Len(docs) >= 2
    /\ docs[1].lvl0 = <<"a">>
    /\ hierarchy.lvl0 = <<"b", "a">>
    /\ docs[Len(docs)].lvl0 = <<"b", "a">>

----------------------------------------------------------------------------
(* Claims about a run over several pages (Spec) *)

\* the texts of the non-blank headings of level n in the file with this url
HeadingTexts(url, n) ==
    UNION {{GetTextStrip(files[f].elems[x].text) :
                x \in {y \in DOMAIN files[f].elems : HeadingLevel(files[f].elems[y]) = n}} :
            f \in {g \in DOMAIN files : files[g].url = url}}

\* C36: the hierarchy is fresh for each page: in a run over several pages
\* every document's lvl0..lvl3 is empty or the text of a heading of that
\* level in the document's own page, never the text of another page's heading.
C36_HierarchyFreshPerPage ==
    /\ \A i \in DOMAIN documents : \A n \in 0..3 :
            \/ LevelOf(documents[i], n) = <<>>
            \/ LevelOf(documents[i], n) \in HeadingTexts(documents[i].url_without_anchor, n)
    /\ \A r \in Imports : \A i \in DOMAIN requests[r].sent : \A n \in 0..3 :
            \/ LevelOf(requests[r].sent[i], n) = <<>>
            \/ LevelOf(requests[r].sent[i], n)
                    \in HeadingTexts(requests[r].sent[i].url_without_anchor, n)

\* a page with an h1 was read before a page of paragraphs alone, and the
\* paragraphs' documents have no lvl0
C36_Witness ==
    /\ Len(files) = 2
    /\ \E i, j \in DOMAIN documents :
            /\ i < j
            /\ documents[i].url_without_anchor = files[1].url
            /\ documents[i].lvl0 = <<"a">>
            /\ documents[j].url_without_anchor = files[2].url
            /\ documents[j].type = "content"
            /\ documents[j].lvl0 = <<>>

----------------------------------------------------------------------------
(* Claims about an exception out of the health probe (SpecConn) *)

\* the probe outcomes _check_connection handles, and the ones it does not
HandledOutcomes == Transient \cup {"healthy", "RequestUnauthorized"}
Unhandled == {i \in DOMAIN answers : answers[i] \notin HandledOutcomes}

\* the number of transient outcomes in a row that end at probe i
RECURSIVE TransientRun(_)
TransientRun(i) ==
    IF i = 0 THEN 0
    ELSE IF answers[i] \in Transient THEN 1 + TransientRun(i - 1)
    ELSE 0

\* C38: a probe that raises an exception outside the handled classes ends
\* the call with that exception and caches no verdict: no sleep follows it,
\* the availability stays unknown, and the next call probes again starting
\* at attempt 1 with the first backoff, a budget of 3 attempts before it.
C38_UnhandledProbeException ==
    /\ \A i \in Unhandled :
        /\ \A j \in DOMAIN sleeps : sleeps[j].after # i
        /\ \E c \in DOMAIN results :
                /\ results[c].kind = "raise"
                /\ results[c].exc = answers[i]
                /\ results[c].step = "probe"
        /\ i = Len(answers) =>
                /\ server_available = "None"
                /\ pc \in {"idle", "probe"}
                /\ pc = "probe" => attempt = 1 /\ backoff = INITIAL_BACKOFF_SECONDS
    /\ pc = "probe" =>
        /\ attempt = TransientRun(Len(answers)) + 1
        /\ attempt <= 3
        /\ server_available = "None"

\* the first call died of a server error at its second probe; the second
\* call made three more probes and settled on unhealthy
C38_Witness ==
    /\ answers = <<"unhealthy", "ServerError", "unhealthy", "unhealthy", "unhealthy">>
    /\ Len(results) = 2
    /\ results[1].kind = "raise"
    /\ server_available = "False"
    /\ Len(sleeps) = 3

----------------------------------------------------------------------------
(* Claims about dropping the collection (Spec) *)

\* the delete requests of call c that dropped the collection or found none
DropsOf(c) ==
    {j \in DOMAIN requests :
        /\ requests[j].call = c
        /\ requests[j].kind = "delete"
        /\ requests[j].answer \in {"ok", "ObjectNotFound"}}

\* C39: with drop_existing set the collection is deleted before any page is
\* extracted or imported: while index_all extracts or imports, its delete
\* has been answered, no document had been extracted when it was sent, and
\* the documents of the earlier build are already gone; every import comes
\* after the delete of its call. So index_all can return 0 with the earlier
\* documents gone.
C39_DropPrecedesIndexing ==
    cfg.typesense_drop_existing =>
        /\ pc \in {"delete", "create", "extract"} => documents = <<>>
        /\ pc \in {"create", "extract", "import"} =>
                /\ DropsOf(ncalls) # {}
                /\ OldDocId \notin coll_docs
        /\ \A i \in Imports : \E j \in DropsOf(requests[i].call) : j < i

\* the collection held a document of an earlier build; index_all dropped it,
\* the import failed with a network error, index_all returned 0 and the
\* collection is empty
C39_Witness ==
    /\ cfg.typesense_drop_existing
    /\ OldDocId \in coll_docs0
    /\ results = <<Returned("index_all", 0, "None")>>
    /\ \E i \in Imports : requests[i].answer \in ImportNetworkFailures
    /\ coll_docs = {}

====
